---- MODULE Spec2Model ----
(***************************************************************************)
(* kroeg-cellar: a storage adapter that keeps JSON-LD entities as quads in *)
(* a relational database, on top of a hand-written asynchronous client of  *)
(* the database's extended query protocol.                                 *)
(*                                                                         *)
(* The model has three layers:                                             *)
(*   - the database behind the connection: the tables and the prepared     *)
(*     statements of statements.rs, run by the server on Execute;          *)
(*   - the protocol client of postgres-async: the connection mutex, bind,  *)
(*     execute and the row stream BoundQuery::next;                        *)
(*   - the handles (CellarEntityStore): each owns an interning cache and   *)
(*     runs one operation at a time; handles share the connection.         *)
(***************************************************************************)
EXTENDS Integers, Sequences, FiniteSets, TLC

VARIABLES
    db,         \* the persisted tables and their serial counters
    lock,       \* holder of the connection mutex, or Free
    counter,    \* Frontend::counter, source of statement and portal names
    srv,        \* the server's side of the session: failed, portals, inbox
    broken,     \* the transport failed: every later read and write fails
    hs,         \* per handle: the operation in progress and its position
    cache,      \* per handle: EntityCache (uri_to_id, id_to_uri)
    clean,      \* history, per handle: what its running put or get may rely on
    stored,     \* history, per path: the graph an undisturbed put left there
    before,     \* history, per handle: its cache when its statement started
    log,        \* history of the queue: what was enqueued and dequeued
    fe          \* the Frontend under the mutex: to_send, what it wrote, connect

vars == <<db, lock, counter, srv, broken, hs, cache, clean, stored, before, log,
          fe>>

----------------------------------------------------------------------------
\* Bounds of the model.

\* operations the handles may start, all together
MaxOps == 2
\* collection operations other than read_collection the handles may start
MaxCollOps == 2
\* read_collection calls the handles may start
MaxPageOps == 2
\* query calls the handles may start
MaxQueryOps == 2
\* calls of register_next and write_data on the Frontend
MaxFrontendOps == 5
\* messages connect reads from the server
MaxConnectReads == 4
\* notifications the server sends
MaxNotifications == 1
\* rows and notices the server sends for one portal
MaxStreamMessages == 3
\* messages the server writes for read_message, the bytes one read may
\* return (the 1024 of the code, scaled to the messages of the model), and
\* the reads of a closed stream that are followed
MaxWireMessages == 3
MaxChunk == 4
MaxSpins == 1
\* queue operations the handles may start, all together
MaxQueueOps == 4

Handles == {"h1", "h2"}
Free == "free"

\* Option<T>: None is the empty sequence, Some(x) the sequence of x.
None == <<>>
Some(x) == <<x>>
IsSome(o) == o # <<>>
Unwrap(o) == o[1]

----------------------------------------------------------------------------
\* IRIs.

XsdString == "http://www.w3.org/2001/XMLSchema#string"
RdfLangString == "http://www.w3.org/1999/02/22-rdf-syntax-ns#langString"
RdfsLangString == "http://www.w3.org/2000/01/rdf-schema#langString"

\* The IRIs the callers of the model use, in a fixed order.
UriOrder == <<"urn:a", "urn:b", "urn:p", XsdString, RdfLangString>>
Paths == {"urn:a", "urn:b"}

\* A set of IRIs as a list, in the order of UriOrder.
UriList(S) == SelectSeq(UriOrder, LAMBDA u : u \in S)

----------------------------------------------------------------------------
\* StringQuad and QuadContents of the jsonld crate, as cache.rs quotes them.

QId(id) == [kind |-> "Id", id |-> id]
QObject(type_id, content, language) ==
    [kind |-> "Object", type_id |-> type_id, content |-> content,
     language |-> language]
StringQuad(s, p, c) == [subject_id |-> s, predicate_id |-> p, contents |-> c]

\* The "@default" graphs of the items the callers put: one with a typed
\* literal and an id-valued object, one with a language-tagged literal.
ItemA == << StringQuad("urn:a", "urn:p", QObject(XsdString, "hi", None)),
            StringQuad("urn:a", "urn:p", QId("urn:b")) >>
ItemB == << StringQuad("urn:a", "urn:p", QObject(RdfLangString, "hi", Some("en"))) >>
Items == {ItemA, ItemB}

\* The queue entries the callers add.
Events == {<<"e1", "d1">>, <<"e2", "d2">>}

Range(f) == {f[i] : i \in DOMAIN f}

----------------------------------------------------------------------------
\* QuadQuery, QueryId and QueryObject of the jsonld crate, as query matches
\* on them.

QValue(val) == [kind |-> "Value", val |-> val]
QPlaceholder(key) == [kind |-> "Placeholder", key |-> key]
QAny(any) == [kind |-> "Any", any |-> any]
QIgnore == [kind |-> "Ignore"]

OId(id) == [kind |-> "Id", id |-> id]
OObject(value, type_id) == [kind |-> "Object", value |-> value, type_id |-> type_id]
OLanguageString(value, language) ==
    [kind |-> "LanguageString", value |-> value, language |-> language]

QuadQuery(subject, predicate, object) ==
    [subject |-> subject, predicate |-> predicate, object |-> object]

\* format!("quad_{}.<name>", i), i counted from 0.
Column(i, name) == <<i, name>>

\* The QueryIds of pattern i, each with the column its match arm names, in
\* the order the loop body meets them.
PatternColumns(i, q) ==
    << <<Column(i, "quad_id"), q.subject>>,
       <<Column(i, "predicate_id"), q.predicate>> >>
    \o (CASE q.object.kind = "Id" -> << <<Column(i, "attribute_id"), q.object.id>> >>
          [] q.object.kind = "Object" -> << <<Column(i, "type_id"), q.object.type_id>> >>
          [] q.object.kind = "LanguageString" -> <<>>)

RECURSIVE QueryColumns(_, _)
\* The same for the patterns from i on: query.into_iter().enumerate().
QueryColumns(query, i) ==
    IF i > Len(query) THEN <<>>
    ELSE PatternColumns(i - 1, query[i]) \o QueryColumns(query, i + 1)

\* The early returns of the loop: any.len() == 0 in the subject, the
\* predicate or the type_id of an Object. The arm of
\* QueryObject::Id(QueryId::Any(any)) has no such test.
EmptyAny(query) ==
    \E i \in DOMAIN query :
       \/ query[i].subject = QAny(<<>>)
       \/ query[i].predicate = QAny(<<>>)
       \/ query[i].object.kind = "Object" /\ query[i].object.type_id = QAny(<<>>)

\* placeholders: per key, the columns pushed for it, in the order met.
Placeholders(query) ==
    LET cols == QueryColumns(query, 1)
        keys == {cols[j][2].key : j \in {j \in DOMAIN cols : cols[j][2].kind = "Placeholder"}}
        of(k) == SelectSeq(cols, LAMBDA c : c[2] = QPlaceholder(k))
    IN [k \in keys |-> [j \in DOMAIN of(k) |-> of(k)[j][1]]]

\* checks: column -> the IRI it must equal.
Checks(query) ==
    {<<c[1], c[2].val>> : c \in {c \in Range(QueryColumns(query, 1)) : c[2].kind = "Value"}}

\* checks_any: column -> the IRIs it must be one of.
ChecksAny(query) ==
    {<<c[1], c[2].any>> : c \in {c \in Range(QueryColumns(query, 1)) : c[2].kind = "Any"}}

RECURSIVE Others(_, _)
\* others: the comparisons of object and language with strings.
Others(query, i) ==
    IF i > Len(query) THEN <<>>
    ELSE (CASE query[i].object.kind = "Id" -> <<>>
            [] query[i].object.kind = "Object" ->
                  << <<Column(i - 1, "object"), query[i].object.value>> >>
            [] query[i].object.kind = "LanguageString" ->
                  << <<Column(i - 1, "object"), query[i].object.value>>,
                     <<Column(i - 1, "language"), query[i].object.language>> >>)
         \o Others(query, i + 1)

\* The IRIs of checks and checks_any.
AllAttributes(query) ==
    {c[2] : c \in Checks(query)} \cup UNION {Range(c[2]) : c \in ChecksAny(query)}

\* The elements of a sequence as a bag: the number of times each one occurs.
Occurrences(seq, x) == Cardinality({i \in DOMAIN seq : seq[i] = x})
SameBag(s, t) ==
    /\ Len(s) = Len(t)
    /\ \A x \in Range(s) \cup Range(t) : Occurrences(s, x) = Occurrences(t, x)

----------------------------------------------------------------------------
\* The database: the tables of schema.rs and the statements of statements.rs.

RECURSIVE SortById(_)
\* The rows of a table in ascending id order.
SortById(S) ==
    IF S = {} THEN <<>>
    ELSE LET m == CHOOSE r \in S : \A q \in S : r.id <= q.id
         IN <<m>> \o SortById(S \ {m})

AttributeRow(r) == <<r.id, r.url>>
QuadRow(r) == <<r.id, r.quad_id, r.subject_id, r.predicate_id,
                r.attribute_id, r.object, r.type_id, r.language>>

RECURSIVE InsertAttributesReplace(_, _, _)
\* An upsert that, on conflict, replaces the row and gives the url a new id.
InsertAttributesReplace(tbl, seq, urls) ==
    IF urls = <<>>
    THEN [attribute |-> tbl, attr_seq |-> seq, new_rows |-> {}]
    ELSE LET u == Head(urls)
             row == [id |-> seq + 1, url |-> u]
             rest == InsertAttributesReplace({r \in tbl : r.url # u} \cup {row},
                                             seq + 1, Tail(urls))
         IN [rest EXCEPT !.new_rows =
                IF \E r \in @ : r.url = u THEN @ ELSE @ \cup {row}]

RECURSIVE InsertAttributes(_, _, _)
\* insert into attribute (url) select unnest($1) on conflict (url) do nothing
\* returning id, url: the rows are inserted one by one, in array order.
InsertAttributes(tbl, seq, urls) ==
    IF urls = <<>>
    THEN [attribute |-> tbl, attr_seq |-> seq, new_rows |-> {}]
    ELSE LET u == Head(urls)
             conflict == \E r \in tbl : r.url = u
             row == [id |-> seq + 1, url |-> u]
             rest == InsertAttributes(IF conflict THEN tbl ELSE tbl \cup {row},
                                      IF conflict THEN seq ELSE seq + 1,
                                      Tail(urls))
         IN [rest EXCEPT !.new_rows = IF conflict THEN @ ELSE @ \cup {row}]

\* An upsert_attributes that returns the new rows only.
UpsertReturnedNew(d, ins, urls) == ins.new_rows

\* upsert_attributes: the new rows, union distinct the rows the statement's
\* snapshot of attribute already held for the urls.
UpsertReturned(d, ins, urls) ==
    ins.new_rows \cup {r \in d.attribute : r.url \in Range(urls)}

UpsertAttributes(d, params) ==
    LET urls == params[1]
        ins == InsertAttributes(d.attribute, d.attr_seq, urls)
    IN [db |-> [d EXCEPT !.attribute = ins.attribute, !.attr_seq = ins.attr_seq],
        rows |-> [i \in DOMAIN SortById(UpsertReturned(d, ins, urls)) |->
                    AttributeRow(SortById(UpsertReturned(d, ins, urls))[i])]]

\* select_attributes: select id, url from attribute where id = any($1)
SelectAttributes(d, params) ==
    LET hit == SortById({r \in d.attribute : r.id \in Range(params[1])})
    IN [db |-> d, rows |-> [i \in DOMAIN hit |-> AttributeRow(hit[i])]]

\* select_quad: the quad rows where quad_id = $1
SelectQuad(d, params) ==
    LET hit == SortById({r \in d.quad : r.quad_id = params[1]})
    IN [db |-> d, rows |-> [i \in DOMAIN hit |-> QuadRow(hit[i])]]

\* A delete_quads that deletes nothing.
QuadsKeptAll(tbl, qid) == tbl

\* The rows delete_quads leaves in the table.
QuadsKept(tbl, qid) == {r \in tbl : r.quad_id # qid}

\* delete_quads: delete from quad where quad_id = $1
DeleteQuads(d, params) ==
    [db |-> [d EXCEPT !.quad = QuadsKept(d.quad, params[1])], rows |-> <<>>]

\* insert_quads: one row per position of the seven parallel arrays.
InsertQuads(d, params) ==
    LET n == Len(params[1])
        new == {[id |-> d.quad_seq + i, quad_id |-> params[1][i],
                 subject_id |-> params[2][i], predicate_id |-> params[3][i],
                 attribute_id |-> params[4][i], object |-> params[5][i],
                 type_id |-> params[6][i], language |-> params[7][i]] : i \in 1..n}
    IN [db |-> [d EXCEPT !.quad = @ \cup new, !.quad_seq = @ + n], rows |-> <<>>]

\* A queue_item_pop that orders by id desc.
QueueLast(tbl) == CHOOSE r \in tbl : \A q \in tbl : r.id >= q.id

\* The row queue_item_pop deletes: select id from queue_item order by id limit 1.
QueueFirst(tbl) == CHOOSE r \in tbl : \A q \in tbl : r.id <= q.id

\* A queue_item_pop that returns the first row and leaves it in the table.
QueueItemPopKeeps(d, params) ==
    IF d.queue_item = {} THEN [db |-> d, rows |-> <<>>]
    ELSE [db |-> d,
          rows |-> << <<QueueFirst(d.queue_item).event,
                        QueueFirst(d.queue_item).data>> >>]

\* queue_item_pop: delete ... where id = (first id) returning event, data
QueueItemPop(d, params) ==
    IF d.queue_item = {} THEN [db |-> d, rows |-> <<>>]
    ELSE LET r == QueueFirst(d.queue_item)
         IN [db |-> [d EXCEPT !.queue_item = @ \ {r}],
             rows |-> << <<r.event, r.data>> >>]

\* queue_item_put: insert into queue_item (event, data) values ($1, $2)
QueueItemPut(d, params) ==
    [db |-> [d EXCEPT !.queue_item = @ \cup {[id |-> d.queue_seq + 1,
                                             event |-> params[1],
                                             data |-> params[2]]},
                      !.queue_seq = @ + 1],
     rows |-> <<>>]

CollectionRow(r) == <<r.id, r.collection_id, r.object_id>>

\* The first n elements of a sequence (all of them when it is shorter).
Take(seq, n) == SubSeq(seq, 1, IF n < Len(seq) THEN n ELSE Len(seq))

\* UNIQUE(collection_id, object_id): the row an insert would conflict with.
CollectionConflict(tbl, c, o) ==
    \E r \in tbl : r.collection_id = c /\ r.object_id = o

\* An insert_collection without "on conflict do nothing": always a new row.
InsertCollectionAlways(d, params) ==
    [db |-> [d EXCEPT !.collection_item =
                        @ \cup {[id |-> d.coll_seq + 1, collection_id |-> params[1],
                                 object_id |-> params[2]]},
                      !.coll_seq = @ + 1],
     rows |-> <<>>]

\* insert_collection: insert into collection_item (collection_id, object_id)
\* values ($1, $2) on conflict do nothing
InsertCollection(d, params) ==
    IF CollectionConflict(d.collection_item, params[1], params[2])
    THEN [db |-> d, rows |-> <<>>]
    ELSE [db |-> [d EXCEPT !.collection_item =
                        @ \cup {[id |-> d.coll_seq + 1, collection_id |-> params[1],
                                 object_id |-> params[2]]},
                           !.coll_seq = @ + 1],
          rows |-> <<>>]

\* A delete_collection that empties the collection.
DeleteCollectionAll(d, params) ==
    [db |-> [d EXCEPT !.collection_item =
                {r \in @ : r.collection_id # params[1]}],
     rows |-> <<>>]

\* delete_collection: delete from collection_item where collection_id = $1
\* and object_id = $2
DeleteCollection(d, params) ==
    [db |-> [d EXCEPT !.collection_item =
                {r \in @ : ~(r.collection_id = params[1] /\ r.object_id = params[2])}],
     rows |-> <<>>]

\* The rows of a table in descending id order.
SortByIdDesc(S) ==
    [i \in 1..Cardinality(S) |-> SortById(S)[Cardinality(S) + 1 - i]]

\* select_collection: where collection_id = $1 and id >= $2 order by id asc
\* limit $3
SelectCollection(d, params) ==
    LET hit == Take(SortById({r \in d.collection_item :
                        r.collection_id = params[1] /\ r.id >= params[2]}),
                    params[3])
    IN [db |-> d, rows |-> [i \in DOMAIN hit |-> CollectionRow(hit[i])]]

\* select_collection_reverse: where collection_id = $1 and id <= $2 order by
\* id desc limit $3
SelectCollectionReverse(d, params) ==
    LET hit == Take(SortByIdDesc({r \in d.collection_item :
                        r.collection_id = params[1] /\ r.id <= params[2]}),
                    params[3])
    IN [db |-> d, rows |-> [i \in DOMAIN hit |-> CollectionRow(hit[i])]]

\* find_collection: where collection_id = $1 and id = $2
FindCollection(d, params) ==
    LET hit == SortById({r \in d.collection_item :
                        r.collection_id = params[1] /\ r.id = params[2]})
    IN [db |-> d, rows |-> [i \in DOMAIN hit |-> CollectionRow(hit[i])]]

\* The value of a column in a row of quad; NULL is None.
Cell(r, name) ==
    IF name \in {"attribute_id", "object", "type_id", "language"} THEN r[name]
    ELSE Some(r[name])

\* a = b in SQL: true only when neither side is NULL.
SqlEq(a, b) == IsSome(a) /\ IsSome(b) /\ a = b

RECURSIVE Combinations(_, _)
\* from quad quad_0, ..., quad_{n-1}: the combinations of n rows, as the
\* nested loops over the table in id order produce them.
Combinations(tbl, n) ==
    IF n = 0 THEN << <<>> >>
    ELSE LET base == Combinations(tbl, n - 1)
             rows == SortById(tbl)
             m == Len(rows)
         IN [j \in 1..(Len(base) * m) |->
                Append(base[((j - 1) \div m) + 1], rows[((j - 1) % m) + 1])]

\* The column quad_i.name of a combination.
ColumnOf(combo, col) == Cell(combo[col[1] + 1], col[2])

\* The where clause of the text query builds: "where true", the others, the
\* equalities of the placeholders, the checks and the checks_any.
Where(sql, combo) ==
    /\ \A j \in DOMAIN sql.others :
          SqlEq(ColumnOf(combo, sql.others[j][1]), Some(sql.others[j][2]))
    /\ \A j \in DOMAIN sql.joins :
          SqlEq(ColumnOf(combo, sql.joins[j][1]), ColumnOf(combo, sql.joins[j][2]))
    /\ \A c \in sql.checks : SqlEq(ColumnOf(combo, c[1]), Some(c[2]))
    /\ \A c \in sql.checks_any :
          \E v \in Range(c[2]) : SqlEq(ColumnOf(combo, c[1]), Some(v))

\* The statement do_query parsed, run: one row of the selected columns per
\* combination that passes the where clause.
SelectQuery(d, params) ==
    LET sql == params[1]
        hit == SelectSeq(Combinations(d.quad, sql.quad_count),
                         LAMBDA combo : Where(sql, combo))
    IN [db |-> d,
        rows |-> [j \in DOMAIN hit |->
                    [k \in DOMAIN sql.select |-> ColumnOf(hit[j], sql.select[k])]]]

\* Whether the server accepts the text. "from" needs a table; "in ()" is a
\* syntax error; a check followed by a checks_any reads "= <id>and ...",
\* which a server that rejects trailing junk after a number (strict) refuses.
QueryParses(sql, strict) ==
    /\ sql.quad_count > 0
    /\ \A c \in sql.checks_any : c[2] # <<>>
    /\ ~(strict /\ sql.checks # {} /\ sql.checks_any # {})

\* What the server does with a portal of statement stmt on Execute.
RunStatement(stmt, d, params) ==
    CASE stmt = "upsert_attributes" -> UpsertAttributes(d, params)
      [] stmt = "select_attributes" -> SelectAttributes(d, params)
      [] stmt = "select_quad" -> SelectQuad(d, params)
      [] stmt = "insert_quads" -> InsertQuads(d, params)
      [] stmt = "delete_quads" -> DeleteQuads(d, params)
      [] stmt = "queue_item_pop" -> QueueItemPop(d, params)
      [] stmt = "queue_item_put" -> QueueItemPut(d, params)
      [] stmt = "insert_collection" -> InsertCollection(d, params)
      [] stmt = "delete_collection" -> DeleteCollection(d, params)
      [] stmt = "select_collection" -> SelectCollection(d, params)
      [] stmt = "select_collection_reverse" -> SelectCollectionReverse(d, params)
      [] stmt = "find_collection" -> FindCollection(d, params)
      [] stmt = "query" -> SelectQuery(d, params)

----------------------------------------------------------------------------
\* EntityCache (cache.rs) and the row decoding of dbquad.rs.

MapInsert(m, k, v) == [x \in DOMAIN m \cup {k} |-> IF x = k THEN v ELSE m[x]]

EmptyCache == [id_to_uri |-> <<>>, uri_to_id |-> <<>>]

\* A cache_attribute_row that starts the maps afresh.
cache_attribute_row_reset(c, row) ==
    [id_to_uri |-> MapInsert(<<>>, row[1], row[2]),
     uri_to_id |-> MapInsert(<<>>, row[2], row[1])]

\* A cache_attribute_row that forgets the uri_to_id half.
cache_attribute_row_one_map(c, row) ==
    [id_to_uri |-> MapInsert(c.id_to_uri, row[1], row[2]),
     uri_to_id |-> c.uri_to_id]

\* EntityCache::cache_attribute_row: column 0 is the id, column 1 the url.
cache_attribute_row(c, row) ==
    [id_to_uri |-> MapInsert(c.id_to_uri, row[1], row[2]),
     uri_to_id |-> MapInsert(c.uri_to_id, row[2], row[1])]

\* A make_from_row that takes a literal without a datatype for a string.
make_from_row_defaults(row) ==
    LET attribute_id == row[5]
        object == row[6]
        type_id == row[7]
        language == row[8]
        contents ==
            IF IsSome(attribute_id)
            THEN [kind |-> "Id", id |-> Unwrap(attribute_id)]
            ELSE IF IsSome(object) /\ IsSome(language)
            THEN [kind |-> "LanguageString", contents |-> Unwrap(object),
                  language |-> Unwrap(language)]
            ELSE IF IsSome(object)
            THEN [kind |-> "Object", contents |-> Unwrap(object),
                  type_id |-> IF IsSome(type_id) THEN Unwrap(type_id) ELSE 3]
            ELSE [kind |-> "panic"]
    IN [id |-> row[1], quad_id |-> row[2], subject_id |-> row[3],
        predicate_id |-> row[4], contents |-> contents]

\* DatabaseQuad::make_from_row: columns 4..7 decide the contents.
make_from_row(row) ==
    LET attribute_id == row[5]
        object == row[6]
        type_id == row[7]
        language == row[8]
        contents ==
            IF IsSome(attribute_id)
            THEN [kind |-> "Id", id |-> Unwrap(attribute_id)]
            ELSE IF IsSome(object) /\ IsSome(language)
            THEN [kind |-> "LanguageString", contents |-> Unwrap(object),
                  language |-> Unwrap(language)]
            ELSE IF IsSome(object) /\ IsSome(type_id)
            THEN [kind |-> "Object", contents |-> Unwrap(object),
                  type_id |-> Unwrap(type_id)]
            ELSE [kind |-> "panic"]
    IN [id |-> row[1], quad_id |-> row[2], subject_id |-> row[3],
        predicate_id |-> row[4], contents |-> contents]

\* A collect_quad_ids that leaves the datatypes of the literals out.
collect_quad_ids_untyped(quads) ==
    UNION {{q.quad_id, q.subject_id, q.predicate_id}
           \cup (IF q.contents.kind = "Id" THEN {q.contents.id} ELSE {})
           : q \in Range(quads)}

\* collect_quad_ids: every id the quads mention.
collect_quad_ids(quads) ==
    UNION {{q.quad_id, q.subject_id, q.predicate_id}
           \cup (IF q.contents.kind = "Id" THEN {q.contents.id}
                 ELSE IF q.contents.kind = "Object" THEN {q.contents.type_id}
                 ELSE {}) : q \in Range(quads)}

\* The ids EntityCache::translate_quad indexes id_to_uri with.
TranslateLookups(quad) ==
    {quad.subject_id, quad.predicate_id}
    \cup (IF quad.contents.kind = "Id" THEN {quad.contents.id}
          ELSE IF quad.contents.kind = "Object" THEN {quad.contents.type_id}
          ELSE {})

\* EntityCache::translate_quad
translate_quad(c, quad) ==
    LET contents ==
            CASE quad.contents.kind = "Id" ->
                    QId(c.id_to_uri[quad.contents.id])
              [] quad.contents.kind = "Object" ->
                    QObject(c.id_to_uri[quad.contents.type_id],
                            quad.contents.contents, None)
              [] quad.contents.kind = "LanguageString" ->
                    QObject(RdfsLangString, quad.contents.contents,
                            Some(quad.contents.language))
    IN StringQuad(c.id_to_uri[quad.subject_id],
                  c.id_to_uri[quad.predicate_id], contents)

----------------------------------------------------------------------------
\* EntityStore::put: the IRIs to intern and the arrays of insert_quads.

\* get_ids: the IRIs of one quad.
get_ids(quad) ==
    {quad.subject_id, quad.predicate_id}
    \cup (IF quad.contents.kind = "Id" THEN {quad.contents.id}
          ELSE {quad.contents.type_id})

\* The set put hands to cache_uris.
PutUris(path, quads) == UNION {get_ids(q) : q \in Range(quads)} \cup {path}

\* A put that pushes an empty object beside the id of an id-valued quad.
PutArraysObjectForId(c, path, quads) ==
    LET qid == c.uri_to_id[path]
        n == Len(quads)
        isId(i) == quads[i].contents.kind = "Id"
    IN << [i \in 1..n |-> qid],
          [i \in 1..n |-> c.uri_to_id[quads[i].subject_id]],
          [i \in 1..n |-> c.uri_to_id[quads[i].predicate_id]],
          [i \in 1..n |-> IF isId(i) THEN Some(c.uri_to_id[quads[i].contents.id])
                          ELSE None],
          [i \in 1..n |-> IF isId(i) THEN Some("")
                          ELSE Some(quads[i].contents.content)],
          [i \in 1..n |-> IF isId(i) THEN None
                          ELSE Some(c.uri_to_id[quads[i].contents.type_id])],
          [i \in 1..n |-> IF isId(i) THEN None
                          ELSE quads[i].contents.language] >>

\* The seven parallel arrays put builds from the quads (lines 98-120).
PutArrays(c, path, quads) ==
    LET qid == c.uri_to_id[path]
        n == Len(quads)
        isId(i) == quads[i].contents.kind = "Id"
    IN << [i \in 1..n |-> qid],
          [i \in 1..n |-> c.uri_to_id[quads[i].subject_id]],
          [i \in 1..n |-> c.uri_to_id[quads[i].predicate_id]],
          [i \in 1..n |-> IF isId(i) THEN Some(c.uri_to_id[quads[i].contents.id])
                          ELSE None],
          [i \in 1..n |-> IF isId(i) THEN None
                          ELSE Some(quads[i].contents.content)],
          [i \in 1..n |-> IF isId(i) THEN None
                          ELSE Some(c.uri_to_id[quads[i].contents.type_id])],
          [i \in 1..n |-> IF isId(i) THEN None
                          ELSE quads[i].contents.language] >>

----------------------------------------------------------------------------
\* i32 and the cursor strings of read_collection. A string is the sequence
\* of its characters.

I32Max == 2147483647
I32Min == -2147483647 - 1

\* i32::checked_add(1), checked_sub(1): None on overflow.
checked_add1(n) == IF n = I32Max THEN None ELSE Some(n + 1)
checked_sub1(n) == IF n = I32Min THEN None ELSE Some(n - 1)

Digit == <<"0", "1", "2", "3", "4", "5", "6", "7", "8", "9">>
IsDigit(c) == \E i \in 1..10 : Digit[i] = c
DigitVal(c) == (CHOOSE i \in 1..10 : Digit[i] = c) - 1

RECURSIVE ParseDigits(_, _, _)
\* The digit loop of i32::from_str: acc * 10 +/- digit, with checked
\* arithmetic; None on a character that is no digit and on overflow.
ParseDigits(str, acc, neg) ==
    IF str = <<>> THEN Some(acc)
    ELSE IF ~IsDigit(Head(str)) THEN None
    ELSE LET d == DigitVal(Head(str))
         IN IF neg
            THEN IF acc < -214748364 \/ (acc = -214748364 /\ d > 8) THEN None
                 ELSE ParseDigits(Tail(str), acc * 10 - d, neg)
            ELSE IF acc > 214748364 \/ (acc = 214748364 /\ d > 7) THEN None
                 ELSE ParseDigits(Tail(str), acc * 10 + d, neg)

\* str.parse::<i32>(): Some(n) for Ok(n), None for Err.
ParseI32(str) ==
    IF str = <<>> THEN None
    ELSE IF Head(str) \in {"+", "-"}
    THEN IF Len(str) = 1 THEN None
         ELSE ParseDigits(Tail(str), 0, Head(str) = "-")
    ELSE ParseDigits(str, 0, FALSE)

RECURSIVE FormatNat(_)
\* The decimal digits of a natural number.
FormatNat(n) ==
    IF n < 10 THEN <<Digit[n + 1]>>
    ELSE FormatNat(n \div 10) \o <<Digit[(n % 10) + 1]>>

\* format!("{}", n) of an i32.
FormatI32(n) ==
    IF n >= 0 THEN FormatNat(n)
    ELSE IF n = I32Min THEN <<"-">> \o FormatNat(214748364) \o <<"8">>
    ELSE <<"-">> \o FormatNat(-n)

BeforePrefix == <<"b", "e", "f", "o", "r", "e", "-">>
AfterPrefix == <<"a", "f", "t", "e", "r", "-">>

\* str::starts_with
StartsWith(str, prefix) ==
    Len(str) >= Len(prefix) /\ SubSeq(str, 1, Len(prefix)) = prefix

\* value[7..]: the string from byte 7 on; it panics on a shorter string.
From7(str) == SubSeq(str, 8, Len(str))

\* format!("after-{}", val), format!("before-{}", val)
FormatAfter(val) == AfterPrefix \o FormatI32(val)
FormatBefore(val) == BeforePrefix \o FormatI32(val)

----------------------------------------------------------------------------
\* The Frontend of the connection (postgres-async).

\* connect's Frontend { .. to_send: Vec::new() .. }, with what the model
\* keeps beside it: the chunks written to the stream, and connect's locals.
\*   unread: the messages that arrived and that no read_message has
\*           returned yet, ahead of the replies to the requests to come
\*   status: "running" while connect runs, "ok" once it returned the
\*           Connection, or the error it returned
\*   pos: where a BoundQuery is: "idle" between two calls of next, "reading"
\*        in the first read loop of next, "draining" after its Sync, "done"
\*        once next returned None, "failed" once it returned Some(Err)
\*   server: what the server does with the portal: "running", "completed",
\*        "failed" (skips messages until Sync), "idle" after ReadyForQuery
\*   rbuf: Frontend::buf, the bytes read and not yet parsed; wire: the bytes
\*        the server wrote and no read has taken; wrote: the messages the
\*        server wrote; closed: the peer closed the stream; fills: the
\*        reads since the last message was returned; spanned: a message
\*        was returned that took several reads; packed: a message was
\*        returned that took none, its bytes having come with the one
\*        before; spins: the reads that returned 0
\*   consumed, returned: the messages read_message has returned under the
\*        BoundQuery, and what its next calls have returned
NewFrontend ==
    [to_send |-> <<>>, stream |-> <<>>, calls |-> 0, names |-> <<>>,
     unread |-> <<>>, notified |-> 0,
     status |-> "running", init |-> "Authenticating", buf |-> <<>>,
     key_data |-> None, parameters |-> <<>>, read |-> <<>>,
     pos |-> "idle", server |-> "idle", consumed |-> <<>>, returned |-> <<>>,
     rbuf |-> <<>>, wire |-> <<>>, wrote |-> <<>>, closed |-> FALSE,
     fills |-> 0, spanned |-> FALSE, packed |-> FALSE, spins |-> 0]

\* The Frontend inside the Connection that connect returned.
Connected == [NewFrontend EXCEPT !.status = "ok", !.init = "Initializing"]

\* The arguments of connect.
Username == "kroeg"
Password == "secret"

\* The backend messages a server may send while connect runs; a message is
\* its variant followed by what the code reads of its body.
AuthenticationRequests ==
    {<<"AuthenticationCleartextPassword">>,
     <<"AuthenticationMd5Password", "salt1">>,
     <<"AuthenticationMd5Password", "salt2">>}
UnsupportedAuthentication ==
    {<<"AuthenticationKerberosV5">>, <<"AuthenticationScmCredential">>,
     <<"AuthenticationGssContinue">>, <<"AuthenticationSspi">>,
     <<"AuthenticationSasl">>, <<"AuthenticationSaslContinue">>,
     <<"AuthenticationSaslFinal">>}
BackendMessages ==
    {<<"AuthenticationOk">>} \cup AuthenticationRequests
    \cup UnsupportedAuthentication
    \cup {<<"ErrorResponse">>, <<"NoticeResponse">>, <<"ReadyForQuery">>,
          <<"NotificationResponse">>, <<"BackendKeyData", 7, 9>>,
          <<"ParameterStatus", "client_encoding", "UTF8">>,
          <<"ParameterStatus", "client_encoding", "LATIN1">>}

\* frontend::password_message
password_message(payload) == <<"PasswordMessage", payload>>

\* postgres_protocol::authentication::md5_hash, kept as the term it hashes.
md5_hash(username, password, salt) == <<"md5", username, password, salt>>

\* What an on_message returns: Ok(done) or Err(err), with the buf and the
\* state it leaves.
OnOk(done, buf, st) == [ok |-> TRUE, done |-> done, err |-> "", buf |-> buf, st |-> st]
OnErr(err, buf, st) == [ok |-> FALSE, done |-> FALSE, err |-> err, buf |-> buf, st |-> st]

\* An Authentication::on_message that answers SASL with the password.
AuthenticationAnswersSasl(message, buf, st) ==
    CASE message[1] = "AuthenticationOk" -> OnOk(TRUE, buf, st)
      [] message[1] \in {"AuthenticationCleartextPassword", "AuthenticationSasl"} ->
            OnOk(FALSE, buf \o <<password_message(Password)>>, st)
      [] message[1] = "AuthenticationMd5Password" ->
            OnOk(FALSE,
                 buf \o <<password_message(md5_hash(Username, Password, message[2]))>>,
                 st)
      [] message \in UnsupportedAuthentication /\ message[1] # "AuthenticationSasl" ->
            OnErr("unsupported authentication method", buf, st)
      [] message[1] = "ErrorResponse" -> OnErr("server", buf, st)
      [] OTHER -> OnErr("unexpected message at this time", buf, st)

\* Authentication::on_message
AuthenticationOnMessage(message, buf, st) ==
    CASE message[1] = "AuthenticationOk" -> OnOk(TRUE, buf, st)
      [] message[1] = "AuthenticationCleartextPassword" ->
            OnOk(FALSE, buf \o <<password_message(Password)>>, st)
      [] message[1] = "AuthenticationMd5Password" ->
            OnOk(FALSE,
                 buf \o <<password_message(md5_hash(Username, Password, message[2]))>>,
                 st)
      [] message \in UnsupportedAuthentication ->
            OnErr("unsupported authentication method", buf, st)
      [] message[1] = "ErrorResponse" -> OnErr("server", buf, st)
      [] OTHER -> OnErr("unexpected message at this time", buf, st)

\* An Initialization::on_message that ignores what it does not know.
InitializationIgnoresOthers(message, buf, st) ==
    CASE message[1] = "BackendKeyData" ->
            OnOk(FALSE, buf, [st EXCEPT !.key_data = Some(<<message[2], message[3]>>)])
      [] message[1] = "ErrorResponse" -> OnErr("server", buf, st)
      [] message[1] = "ReadyForQuery" -> OnOk(TRUE, buf, st)
      [] OTHER -> OnOk(FALSE, buf, st)

\* Initialization::on_message
InitializationOnMessage(message, buf, st) ==
    CASE message[1] = "BackendKeyData" ->
            OnOk(FALSE, buf, [st EXCEPT !.key_data = Some(<<message[2], message[3]>>)])
      [] message[1] = "ParameterStatus" ->
            OnOk(FALSE, buf,
                 [st EXCEPT !.parameters =
                      [k \in DOMAIN @ \cup {message[2]} |->
                          IF k = message[2] THEN message[3] ELSE @[k]]])
      [] message[1] = "ErrorResponse" -> OnErr("server", buf, st)
      [] message[1] = "NoticeResponse" -> OnOk(FALSE, buf, st)
      [] message[1] = "ReadyForQuery" -> OnOk(TRUE, buf, st)
      [] OTHER -> OnErr("unexpected message at this time", buf, st)

\* InitializationState::on_message; st is the state with its tag in init.
InitializationStateOnMessage(message, buf, st) ==
    IF st.init = "Authenticating"
    THEN LET r == AuthenticationOnMessage(message, buf, st)
         IN  IF r.ok /\ r.done
             THEN OnOk(FALSE, r.buf,
                       [st EXCEPT !.init = "Initializing", !.key_data = None,
                                  !.parameters = <<>>])
             ELSE r
    ELSE InitializationOnMessage(message, buf, st)

\* Frontend::register_next
register_next(f, msg) == [f EXCEPT !.to_send = @ \o msg]

\* Frontend::write_data that returns Ok: write_all(&self.to_send) when it
\* is not empty, then write_all(buf).
write_data(f, buf) ==
    [f EXCEPT !.stream = @ \o (IF f.to_send # <<>> THEN <<f.to_send>> ELSE <<>>)
                           \o <<buf>>]

----------------------------------------------------------------------------
\* A handle (CellarEntityStore) between two awaits: the operation it runs,
\* the statement it is at, and how far that statement got.
\*   phase: idle, bind (about to bind), exec (bound, about to execute),
\*          rows (holds the BoundQuery), stuck (waits for a reply for ever)

NoResult == [op |-> "none", args |-> <<>>, status |-> "none", value |-> <<>>]

IdleHandle ==
    [op |-> "none", args |-> <<>>, stmt |-> "none", phase |-> "idle",
     params |-> <<>>, portal |-> None, out |-> <<>>, local |-> <<>>,
     result |-> NoResult, nops |-> 0]

\* The operation ends: Ok(value), Err(value), or a panic of the caller.
Return(st, status, value) ==
    [st EXCEPT !.op = IF status = "panic" THEN "panicked" ELSE "none",
               !.args = <<>>, !.stmt = "none", !.phase = "idle",
               !.params = <<>>, !.portal = None, !.out = <<>>, !.local = <<>>,
               !.result = [op |-> st.op, args |-> st.args,
                           status |-> status, value |-> value]]

\* The operation goes on to statement.bind(params), then execute.
StartStmt(st, stmt, params) ==
    [st EXCEPT !.stmt = stmt, !.params = params, !.phase = "bind",
               !.portal = None, !.out = <<>>]

RECURSIVE SortInts(_)
SortInts(S) ==
    IF S = {} THEN <<>>
    ELSE LET m == CHOOSE x \in S : \A y \in S : x <= y
         IN <<m>> \o SortInts(S \ {m})

\* The operation goes on to Statement::parse(text), then bind and execute.
\* The statement has no parameters; its text travels in their place.
StartParse(st, sql) ==
    [st EXCEPT !.stmt = "query", !.params = <<sql>>, !.phase = "parse",
               !.portal = None, !.out = <<>>]

RECURSIVE Flatten(_)
\* Iterator::flatten over a list of lists.
Flatten(seqs) == IF seqs = <<>> THEN <<>> ELSE Head(seqs) \o Flatten(Tail(seqs))

\* A compiler that emits no equality.
NoJoins(columns) == <<>>

\* placeholder.iter().zip(placeholder.iter().skip(1))
ZipSkip1(columns) == [j \in 1..(Len(columns) - 1) |-> <<columns[j], columns[j + 1]>>]

\* A select list in descending key order.
SelectListDescending(ph) ==
    LET keys == SortInts(DOMAIN ph)
    IN [j \in DOMAIN keys |-> ph[keys[Len(keys) + 1 - j]][1]]

\* The select list: &placeholder[0] of every entry of the BTreeMap, which
\* iterates in ascending key order.
SelectList(ph) ==
    LET keys == SortInts(DOMAIN ph)
    IN [j \in DOMAIN keys |-> ph[keys[j]][1]]

\* The text query builds once the IRIs are in the cache: the first column of
\* every placeholder in ascending key order (BTreeMap), the tables, and the
\* conditions.
BuildQuery(query, c) ==
    LET ph == Placeholders(query)
        keys == SortInts(DOMAIN ph)
    IN [select |-> SelectList(ph),
        quad_count |-> Len(query),
        others |-> Others(query, 1),
        joins |-> Flatten([j \in DOMAIN keys |-> ZipSkip1(ph[keys[j]])]),
        checks |-> {<<k[1], c.uri_to_id[k[2]]>> : k \in Checks(query)},
        checks_any |-> {<<k[1], [j \in DOMAIN k[2] |-> c.uri_to_id[k[2][j]]]>> :
                          k \in ChecksAny(query)}]

\* The last closure of query: every id through id_to_uri.
QueryResult(st, c) ==
    LET data == st.local
    IN IF Range(Flatten(data)) \subseteq DOMAIN c.id_to_uri
       THEN Return(st, "ok", [i \in DOMAIN data |->
                                [j \in DOMAIN data[i] |-> c.id_to_uri[data[i][j]]]])
       ELSE Return(st, "panic", "id_to_uri")

\* CollectionPointer
Pointer(items, aft, bef) ==
    [items |-> items, after |-> aft, before |-> bef, count |-> None]
EmptyPointer == Pointer(<<>>, None, None)

\* Option::map(|val| format!("after-{}", val)) and its before- twin.
MapFormatAfter(o) == IF IsSome(o) THEN Some(FormatAfter(Unwrap(o))) ELSE None
MapFormatBefore(o) == IF IsSome(o) THEN Some(FormatBefore(Unwrap(o))) ELSE None

\* CollectionItem::make_from_row
CollectionItem(row) == [id |-> row[1], collection_id |-> row[2], object_id |-> row[3]]

\* Vec::reverse
Reverse(seq) == [i \in 1..Len(seq) |-> seq[Len(seq) + 1 - i]]

\* The match on the cursor at the head of read_collection. An overflow of
\* val - 1 or val + 1 panics in a build with overflow checks and wraps in a
\* build without.
ParseCursor(cursor, checks) ==
    LET go(until, offset) == [kind |-> "go", until |-> until, offset |-> offset]
        empty == [kind |-> "empty"]
        panic(msg) == [kind |-> "panic", msg |-> msg]
        value == Unwrap(cursor)
    IN IF cursor = None THEN go(TRUE, I32Max)
       ELSE IF StartsWith(value, BeforePrefix)
       THEN LET val == ParseI32(From7(value))
            IN IF val = None THEN empty
               ELSE IF Unwrap(val) = I32Min
               THEN IF checks THEN panic("attempt to subtract with overflow")
                    ELSE go(TRUE, I32Max)
               ELSE go(TRUE, Unwrap(val) - 1)
       ELSE IF StartsWith(value, AfterPrefix)
       THEN IF Len(value) < 7 THEN panic("byte index 7 is out of bounds")
            ELSE LET val == ParseI32(From7(value))
                 IN IF val = None THEN empty
                    ELSE IF Unwrap(val) = I32Max
                    THEN IF checks THEN panic("attempt to add with overflow")
                         ELSE go(FALSE, I32Min)
                    ELSE go(FALSE, Unwrap(val) + 1)
       ELSE empty

\* A u32 as its two 16-bit halves, the upper one first: the upper half of
\* the u32 range is beyond a signed 32-bit integer.
U32(n) == <<n \div 65536, n % 65536>>

\* u32::max_value()
U32Max == <<65535, 65535>>

\* x as i32 of a u32 x: the same 32 bits read as two's complement.
as_i32(w) ==
    IF w[1] >= 32768 THEN (w[1] - 65536) * 65536 + w[2]
    ELSE w[1] * 65536 + w[2]

\* count.unwrap_or(30) as i32
Limit(count) == as_i32(IF IsSome(count) THEN Unwrap(count) ELSE U32(30))

\* The ids read_collection hands to cache_ids: collection_id and object_id
\* of every item.
CollectionIds(items) ==
    [i \in 1..(2 * Len(items)) |->
        IF i % 2 = 1 THEN items[(i + 1) \div 2].collection_id
        ELSE items[i \div 2].object_id]

\* The last closure of read_collection: the pointer it returns.
ReadCollectionPointer(st, c) ==
    LET items == st.local.items
        offset == st.local.offset
    IN IF \A i \in DOMAIN items : items[i].object_id \in DOMAIN c.id_to_uri
       THEN Return(st, "ok",
                Pointer([i \in DOMAIN items |-> c.id_to_uri[items[i].object_id]],
                        MapFormatAfter(IF items # <<>> THEN Some(items[1].id)
                                       ELSE checked_add1(offset)),
                        MapFormatBefore(IF items # <<>> THEN Some(items[Len(items)].id)
                                        ELSE checked_sub1(offset))))
       ELSE Return(st, "panic", "id_to_uri")

\* The last closure of find_collection.
FindCollectionPointer(st) ==
    IF st.local.exists
    THEN Return(st, "ok", Pointer(<<st.args.item>>,
                                  MapFormatAfter(checked_add1(st.local.item_id)),
                                  MapFormatBefore(checked_sub1(st.local.item_id))))
    ELSE Return(st, "ok", EmptyPointer)

\* A get that wraps whatever it translated, the empty list too.
GetAlwaysSome(st, c) ==
    LET quads == st.local
    IN IF \A i \in DOMAIN quads : TranslateLookups(quads[i]) \subseteq DOMAIN c.id_to_uri
       THEN Return(st, "ok", Some([i \in DOMAIN quads |-> translate_quad(c, quads[i])]))
       ELSE Return(st, "panic", "id_to_uri")

\* EntityStore::get, after translate_quads' cache_ids: translate, wrap.
GetAfterCacheIds(st, c) ==
    LET quads == st.local
    IN IF \A i \in DOMAIN quads : TranslateLookups(quads[i]) \subseteq DOMAIN c.id_to_uri
       THEN LET tq == [i \in DOMAIN quads |-> translate_quad(c, quads[i])]
            IN Return(st, "ok", IF Len(tq) = 0 THEN None ELSE Some(tq))
       ELSE Return(st, "panic", "id_to_uri")

\* What follows a cache_ids that returned Ok, in get, in read_collection
\* and in query.
AfterCacheIds(st, c) ==
    IF st.op = "read_collection" THEN ReadCollectionPointer(st, c)
    ELSE IF st.op = "query" THEN QueryResult(st, c)
    ELSE GetAfterCacheIds(st, c)

\* cache_ids: the uncached ids go to select_attributes.
CallCacheIds(st, c, ids) ==
    LET uncached == SelectSeq(ids, LAMBDA i : i \notin DOMAIN c.id_to_uri)
    IN IF uncached = <<>> THEN AfterCacheIds(st, c)
       ELSE StartStmt(st, "select_attributes", <<uncached>>)

\* query, after do_query: row.get::<usize, i32>(i) of every column (a panic
\* on NULL), then cache_ids of all the ids.
AfterDoQuery(st, c) ==
    LET data == st.out
    IN IF \E i \in DOMAIN data : \E j \in DOMAIN data[i] : data[i][j] = None
       THEN Return(st, "panic", "error retrieving column")
       ELSE LET ids == [i \in DOMAIN data |->
                          [j \in DOMAIN data[i] |-> Unwrap(data[i][j])]]
            IN CallCacheIds([st EXCEPT !.local = ids], c, Flatten(ids))

\* translate_quads, after read_quad returned the decoded rows.
AfterReadQuad(st, c) ==
    CallCacheIds([st EXCEPT !.local = st.out], c,
                 SortInts(collect_quad_ids(st.out)))

\* What get and put do once cache_uris returned Ok.
AfterCacheUris(st, c) ==
    CASE st.op = "cache_uris" -> Return(st, "ok", <<>>)
      [] st.op = "get" ->
            IF st.args.path \in DOMAIN c.uri_to_id
            THEN StartStmt(st, "select_quad", <<c.uri_to_id[st.args.path]>>)
            ELSE Return(st, "panic", "uri_to_id")
      [] st.op = "put" ->
            IF PutUris(st.args.path, st.args.item) \subseteq DOMAIN c.uri_to_id
            THEN StartStmt([st EXCEPT !.local = PutArrays(c, st.args.path, st.args.item)],
                           "delete_quads", <<c.uri_to_id[st.args.path]>>)
            ELSE Return(st, "panic", "uri_to_id")
      [] st.op \in {"insert_collection", "remove_collection", "find_collection"} ->
            IF {st.args.path, st.args.item} \subseteq DOMAIN c.uri_to_id
            THEN LET path == c.uri_to_id[st.args.path]
                     item == c.uri_to_id[st.args.item]
                 IN CASE st.op = "insert_collection" ->
                            StartStmt(st, "insert_collection", <<path, item>>)
                      [] st.op = "remove_collection" ->
                            StartStmt(st, "delete_collection", <<path, item>>)
                      [] st.op = "find_collection" ->
                            StartStmt([st EXCEPT !.local =
                                          [exists |-> FALSE, item_id |-> item]],
                                      "find_collection", <<path, item>>)
            ELSE Return(st, "panic", "uri_to_id")
      [] st.op = "query" ->
            IF AllAttributes(st.args.query) \subseteq DOMAIN c.uri_to_id
            THEN StartParse(st, BuildQuery(st.args.query, c))
            ELSE Return(st, "panic", "uri_to_id")
      [] st.op = "read_collection" ->
            IF st.args.path \in DOMAIN c.uri_to_id
            THEN StartStmt(st, IF st.local.until THEN "select_collection_reverse"
                               ELSE "select_collection",
                           <<c.uri_to_id[st.args.path], st.local.offset,
                             Limit(st.args.count)>>)
            ELSE Return(st, "panic", "uri_to_id")

\* The urls cache_uris sends to upsert_attributes.
Uncached(c, uris) == SelectSeq(uris, LAMBDA u : u \notin DOMAIN c.uri_to_id)

\* cache_uris
CallCacheUris(st, c, uris) ==
    IF Uncached(c, uris) = <<>> THEN AfterCacheUris(st, c)
    ELSE StartStmt(st, "upsert_attributes", <<Uncached(c, uris)>>)

\* The row stream of the statement ended with None: the rest of the operation.
AfterStmt(st, c) ==
    CASE st.stmt = "upsert_attributes" -> AfterCacheUris(st, c)
      [] st.stmt = "select_attributes" -> AfterCacheIds(st, c)
      [] st.stmt = "select_quad" -> AfterReadQuad(st, c)
      [] st.stmt = "delete_quads" -> StartStmt(st, "insert_quads", st.local)
      [] st.stmt = "insert_quads" -> Return(st, "ok", st.args.item)
      [] st.stmt = "queue_item_pop" -> Return(st, "ok", st.local)
      [] st.stmt = "queue_item_put" -> Return(st, "ok", <<>>)
      [] st.stmt \in {"insert_collection", "delete_collection"} ->
            Return(st, "ok", <<>>)
      [] st.stmt = "find_collection" -> FindCollectionPointer(st)
      [] st.stmt = "query" -> AfterDoQuery(st, c)
      [] st.stmt \in {"select_collection", "select_collection_reverse"} ->
            LET items == IF st.local.until THEN st.out ELSE Reverse(st.out)
            IN CallCacheIds([st EXCEPT !.local.items = items], c,
                            CollectionIds(items))

\* What the caller's loop does with one row of the stream.
OnRowHandle(st, row) ==
    CASE st.stmt = "select_quad" -> [st EXCEPT !.out = Append(@, make_from_row(row))]
      [] st.stmt = "queue_item_pop" ->
            IF st.local = None THEN [st EXCEPT !.local = Some(<<row[1], row[2]>>)]
            ELSE st
      [] st.stmt \in {"select_collection", "select_collection_reverse"} ->
            [st EXCEPT !.out = Append(@, CollectionItem(row))]
      [] st.stmt = "find_collection" -> [st EXCEPT !.local.exists = TRUE]
      [] st.stmt = "query" -> [st EXCEPT !.out = Append(@, row)]
      [] OTHER -> st

OnRowCache(st, c, row) ==
    IF st.stmt \in {"upsert_attributes", "select_attributes"}
    THEN cache_attribute_row(c, row)
    ELSE c

----------------------------------------------------------------------------
\* The protocol client (postgres-async) and the server's side of the session.

\* A generate_name that does not advance.
generate_name_again(n) == <<"s">> \o FormatNat(1) \o <<"s">>

\* Frontend::generate_name
generate_name(n) == <<"s">> \o FormatNat(n + 1) \o <<"s">>

\* self.counter += 1 of generate_name, and the name it returns, kept in the
\* order the names were handed out.
Generate ==
    /\ counter' = counter + 1
    /\ fe' = [fe EXCEPT !.names = Append(@, generate_name(counter))]

\* A lock() that does not wait.
LockNotAwaited == TRUE

\* conn.connection().lock().await returns once nobody holds the mutex.
LockFree == lock = Free

DataRow(row) == [type |-> "DataRow", row |-> row]
CommandComplete == [type |-> "CommandComplete"]
ErrorResponse == [type |-> "ErrorResponse"]
ParseComplete == [type |-> "ParseComplete"]
BindComplete == [type |-> "BindComplete"]
NotificationResponse == [type |-> "NotificationResponse"]

\* Frontend::read_message with notify_channel: None, as connect builds it:
\* the NotificationResponse is returned to the reader like any message.
Unread == fe.unread # <<>>

\* History: which graph a put that nobody disturbed has left under a path.
StoredAfter(h, st2) ==
    IF hs[h].op = "put" /\ st2.op # "put"
    THEN [stored EXCEPT ![hs[h].args.path] =
            IF st2.result.status = "ok" /\ clean[h] # None
            THEN Some(hs[h].args.item) ELSE None]
    ELSE stored

\* Handle h moves to st2 with cache c2.
Moves(h, st2, c2) ==
    /\ hs' = [hs EXCEPT ![h] = st2]
    /\ cache' = [cache EXCEPT ![h] = c2]
    /\ stored' = StoredAfter(h, st2)
    /\ before' = [before EXCEPT ![h] = IF st2.phase = "bind" THEN c2 ELSE @]

RECURSIVE Sum(_, _)
Sum(f, S) == IF S = {} THEN 0
             ELSE LET x == CHOOSE y \in S : TRUE IN f[x] + Sum(f, S \ {x})

\* The operations started so far.
Started == Sum([h \in Handles |-> hs[h].nops], Handles)

CanCall(h) == hs[h].op = "none" /\ Started < MaxOps
CanCallQueue(h) == hs[h].op = "none" /\ Started < MaxQueueOps

Begin(st, op, args) ==
    [st EXCEPT !.op = op, !.args = args, !.nops = @ + 1, !.result = NoResult]

\* The lists of urls the callers of cache_uris pass.
UrlLists == { <<"urn:b", "urn:p", "urn:b">> }

\* cache_uris(uris), called on its own.
CallCacheUrisOp(h) ==
    /\ CanCall(h)
    /\ \E uris \in UrlLists :
          Moves(h, CallCacheUris(Begin(hs[h], "cache_uris", [uris |-> uris]),
                                 cache[h], uris), cache[h])
    /\ clean' = [clean EXCEPT ![h] = None]
    /\ UNCHANGED <<fe, db, lock, counter, srv, broken, log>>

\* EntityStore::put(path, item), up to its first await on the connection.
CallPut(h) ==
    /\ CanCall(h)
    /\ \E path \in Paths, item \in Items :
          /\ hs' = [hs EXCEPT ![h] =
                CallCacheUris(Begin(hs[h], "put", [path |-> path, item |-> item]),
                              cache[h], UriList(PutUris(path, item)))]
          /\ clean' = [g \in Handles |->
                IF g = h
                THEN IF \E w \in Handles \ {h} : hs[w].op = "put"
                     THEN None ELSE Some(db.quad_seq)
                ELSE IF hs[g].op = "put" THEN None
                ELSE IF hs[g].op = "get" /\ hs[g].args.path = path THEN None
                ELSE clean[g]]
          /\ stored' = [stored EXCEPT ![path] = None]
    /\ before' = [before EXCEPT ![h] = cache[h]]
    /\ UNCHANGED <<fe, db, lock, counter, srv, broken, cache, log>>

\* EntityStore::get(path), up to its first await on the connection.
CallGet(h) ==
    /\ CanCall(h)
    /\ \E path \in Paths :
          /\ Moves(h, CallCacheUris(Begin(hs[h], "get", [path |-> path]),
                                    cache[h], <<path>>), cache[h])
          /\ clean' = [clean EXCEPT ![h] = stored[path]]
    /\ UNCHANGED <<fe, db, lock, counter, srv, broken, log>>

\* QueueStore::add(event, data)
CallAdd(h) ==
    /\ CanCallQueue(h)
    /\ \E e \in Events :
          Moves(h, StartStmt(Begin(hs[h], "add", [event |-> e[1], data |-> e[2]]),
                             "queue_item_put", <<e[1], e[2]>>), cache[h])
    /\ clean' = [clean EXCEPT ![h] = None]
    /\ UNCHANGED <<fe, db, lock, counter, srv, broken, log>>

\* QueueStore::get_item
CallGetItem(h) ==
    /\ CanCallQueue(h)
    /\ Moves(h, StartStmt(Begin(hs[h], "get_item", <<>>), "queue_item_pop", <<>>),
             cache[h])
    /\ clean' = [clean EXCEPT ![h] = None]
    /\ UNCHANGED <<fe, db, lock, counter, srv, broken, log>>

\* The entry a handle holds: the one its last get_item returned.
HeldItem(h) ==
    IF hs[h].result.op = "get_item" /\ hs[h].result.status = "ok"
    THEN hs[h].result.value ELSE None

\* A mark_success that puts the entry back.
mark_success_requeues(st, item) ==
    StartStmt(Begin(st, "mark_success", [event |-> item[1], data |-> item[2]]),
              "queue_item_put", <<item[1], item[2]>>)

\* QueueStore::mark_success: future::ok(self).
mark_success(st, item) ==
    Return(Begin(st, "mark_success", [event |-> item[1], data |-> item[2]]),
           "ok", <<>>)

\* QueueStore::mark_failure: push_queue(item.event, item.data).
mark_failure(st, item) ==
    StartStmt(Begin(st, "mark_failure", [event |-> item[1], data |-> item[2]]),
              "queue_item_put", <<item[1], item[2]>>)

\* QueueStore::mark_success(item), with the entry the handle holds.
CallMarkSuccess(h) ==
    /\ CanCallQueue(h) /\ HeldItem(h) # None
    /\ Moves(h, mark_success(hs[h], Unwrap(HeldItem(h))), cache[h])
    /\ clean' = [clean EXCEPT ![h] = None]
    /\ UNCHANGED <<fe, db, lock, counter, srv, broken, log>>

\* QueueStore::mark_failure(item), with the entry the handle holds.
CallMarkFailure(h) ==
    /\ CanCallQueue(h) /\ HeldItem(h) # None
    /\ Moves(h, mark_failure(hs[h], Unwrap(HeldItem(h))), cache[h])
    /\ clean' = [clean EXCEPT ![h] = None]
    /\ UNCHANGED <<fe, db, lock, counter, srv, broken, log>>

CanCallColl(h) == hs[h].op = "none" /\ Started < MaxCollOps
CanCallPage(h) == hs[h].op = "none" /\ Started < MaxPageOps

\* The collection and the members the callers name.
CollPaths == {"urn:c"}
CollItems == {"urn:x1", "urn:x4"}

\* EntityStore::insert_collection(path, item), to its first await.
CallInsertCollection(h) ==
    /\ CanCallColl(h)
    /\ \E path \in CollPaths, item \in CollItems :
          Moves(h, CallCacheUris(Begin(hs[h], "insert_collection",
                                       [path |-> path, item |-> item]),
                                 cache[h], <<path, item>>), cache[h])
    /\ clean' = [clean EXCEPT ![h] = None]
    /\ UNCHANGED <<fe, db, lock, counter, srv, broken, log>>

\* EntityStore::remove_collection(path, item), to its first await.
CallRemoveCollection(h) ==
    /\ CanCallColl(h)
    /\ \E path \in CollPaths, item \in CollItems :
          Moves(h, CallCacheUris(Begin(hs[h], "remove_collection",
                                       [path |-> path, item |-> item]),
                                 cache[h], <<path, item>>), cache[h])
    /\ clean' = [clean EXCEPT ![h] = None]
    /\ UNCHANGED <<fe, db, lock, counter, srv, broken, log>>

\* EntityStore::find_collection(path, item), to its first await.
CallFindCollection(h) ==
    /\ CanCallColl(h)
    /\ \E path \in CollPaths, item \in CollItems :
          Moves(h, CallCacheUris(Begin(hs[h], "find_collection",
                                       [path |-> path, item |-> item]),
                                 cache[h], <<path, item>>), cache[h])
    /\ clean' = [clean EXCEPT ![h] = None]
    /\ UNCHANGED <<fe, db, lock, counter, srv, broken, log>>

\* EntityStore::read_collection_inverse(item): future::ok of an empty pointer.
CallReadCollectionInverse(h) ==
    /\ CanCallColl(h)
    /\ \E item \in CollItems :
          Moves(h, Return(Begin(hs[h], "read_collection_inverse", [item |-> item]),
                          "ok", EmptyPointer), cache[h])
    /\ clean' = [clean EXCEPT ![h] = None]
    /\ UNCHANGED <<fe, db, lock, counter, srv, broken, log>>

\* The cursor strings the callers of read_collection pass on their own.
PageCursors ==
    { BeforePrefix \o <<"3">>,
      AfterPrefix \o <<"1", "3">>,
      <<"b", "o", "g", "u", "s">>,
      AfterPrefix,
      BeforePrefix \o <<"x">>,
      BeforePrefix \o FormatI32(I32Min) }

\* The cursors the last read_collection of the handle returned.
ReturnedCursors(h) ==
    IF hs[h].result.op = "read_collection" /\ hs[h].result.status = "ok"
    THEN {hs[h].result.value.after, hs[h].result.value.before} \ {None}
    ELSE {}

\* The (count, cursor) pairs of the callers: the first page with the default
\* and with a count of two, and pages of two from a cursor.
PageRequests(h) ==
    {<<None, None>>, <<Some(U32(2)), None>>}
    \cup {<<Some(U32(2)), Some(c)>> : c \in PageCursors}
    \cup {<<Some(U32(2)), cur>> : cur \in ReturnedCursors(h)}

\* History of a walk through the pages: the direction of the cursor the
\* caller passes back ("start" on the first page, "none" when the cursor is
\* not the one the last page returned for the direction of the walk) and the
\* items of the pages before.
Walk(h, cursor) ==
    IF cursor = None THEN [dir |-> "start", seen |-> <<>>]
    ELSE IF cursor \in ReturnedCursors(h)
    THEN LET last == hs[h].result
             dir == IF cursor = last.value.after THEN "after" ELSE "before"
         IN IF last.args.walk.dir \in {"start", dir}
            THEN [dir |-> dir, seen |-> last.args.walk.seen \o last.value.items]
            ELSE [dir |-> "none", seen |-> <<>>]
    ELSE [dir |-> "none", seen |-> <<>>]

\* EntityStore::read_collection(path, count, cursor), to its first await.
CallReadCollection(h) ==
    /\ CanCallPage(h)
    /\ \E path \in CollPaths, req \in PageRequests(h), checks \in BOOLEAN :
          LET pc == ParseCursor(req[2], checks)
              st == Begin(hs[h], "read_collection",
                          [path |-> path, count |-> req[1], cursor |-> req[2],
                           walk |-> Walk(h, req[2])])
          IN Moves(h,
                   CASE pc.kind = "empty" -> Return(st, "ok", EmptyPointer)
                     [] pc.kind = "panic" -> Return(st, "panic", pc.msg)
                     [] pc.kind = "go" ->
                          CallCacheUris([st EXCEPT !.local =
                                            [until |-> pc.until, offset |-> pc.offset,
                                             items |-> <<>>]],
                                        cache[h], <<path>>),
                   cache[h])
    /\ clean' = [clean EXCEPT ![h] = None]
    /\ UNCHANGED <<fe, db, lock, counter, srv, broken, log>>

CanCallQuery(h) == hs[h].op = "none" /\ Started < MaxQueryOps

\* The patterns the callers of query pass.
Queries ==
    LET s == QPlaceholder(1)
        o == QPlaceholder(2)
        p == QValue("urn:p")
    IN { \* who points at whom: the object of pattern 0 is the subject of
         \* pattern 1, and the placeholders are met in descending key order
         << QuadQuery(o, p, OId(s)), QuadQuery(s, p, OId(QIgnore)) >>,
         \* one placeholder in three patterns
         << QuadQuery(s, QIgnore, OId(QIgnore)), QuadQuery(s, p, OId(QIgnore)),
            QuadQuery(s, QIgnore, OId(QValue("urn:a"))) >>,
         \* the empty set in each of the four positions
         << QuadQuery(QAny(<<>>), QIgnore, OId(QIgnore)) >>,
         << QuadQuery(s, QAny(<<>>), OId(QIgnore)) >>,
         << QuadQuery(s, p, OId(QAny(<<>>))) >>,
         << QuadQuery(s, QIgnore, OObject("hi", QAny(<<>>))) >>,
         \* an IRI nobody interned
         << QuadQuery(s, QValue("urn:q"), OId(QIgnore)) >>,
         \* a set and a value, a literal
         << QuadQuery(s, p, OId(QAny(<<"urn:a", "urn:b">>))) >>,
         << QuadQuery(s, QIgnore, OObject("hi", QValue(XsdString))) >> }

\* The orders in which a set can be listed.
Orderings(S) ==
    {f \in [1..Cardinality(S) -> S] : \A i, j \in 1..Cardinality(S) : f[i] = f[j] => i = j}

\* all_attributes: the values of checks, then those of checks_any, each map
\* (a HashMap) in the order its iterator yields.
AttributeLists(query) ==
    {Flatten([j \in DOMAIN cs |-> <<cs[j][2]>>]) \o Flatten([j \in DOMAIN as |-> as[j][2]]) :
        cs \in Orderings(Checks(query)), as \in Orderings(ChecksAny(query))}

\* EntityStore::query(query), to its first await.
CallQuery(h) ==
    /\ CanCallQuery(h)
    /\ \E query \in Queries :
          LET st == Begin(hs[h], "query", [query |-> query])
          IN IF EmptyAny(query)
             THEN Moves(h, Return(st, "ok", <<>>), cache[h])
             ELSE \E uris \in AttributeLists(query) :
                     Moves(h, CallCacheUris(st, cache[h], uris), cache[h])
    /\ clean' = [clean EXCEPT ![h] = None]
    /\ UNCHANGED <<fe, db, lock, counter, srv, broken, log>>

\* Statement::parse, answered by ParseComplete. The mutex is taken and
\* released inside.
Parse(h) ==
    /\ hs[h].phase = "parse" /\ LockFree /\ ~broken /\ ~Unread /\ ~srv.failed
    /\ \E strict \in BOOLEAN : QueryParses(hs[h].params[1], strict)
    /\ Generate
    /\ Moves(h, [hs[h] EXCEPT !.phase = "bind"], cache[h])
    /\ UNCHANGED <<db, lock, srv, broken, clean, log>>

\* Statement::parse, answered by ErrorResponse (a text the server refuses, or
\* any other failure of the server): Err, and nothing more is sent.
ParseError(h) ==
    /\ hs[h].phase = "parse" /\ LockFree /\ ~broken /\ ~Unread /\ ~srv.failed
    /\ Generate
    /\ srv' = [srv EXCEPT !.failed = TRUE]
    /\ Moves(h, Return(hs[h], "err", "server"), cache[h])
    /\ UNCHANGED <<db, lock, broken, clean, log>>

\* Statement::parse while the server skips messages until Sync: no reply
\* comes, read_message never returns and the guard is never dropped.
ParseDiscarded(h) ==
    /\ hs[h].phase = "parse" /\ LockFree /\ ~broken /\ ~Unread /\ srv.failed
    /\ Generate
    /\ lock' = h
    /\ Moves(h, [hs[h] EXCEPT !.phase = "stuck"], cache[h])
    /\ UNCHANGED <<db, srv, broken, clean, log>>

\* Statement::parse on a failed transport: write_data returns Err.
ParseBroken(h) ==
    /\ hs[h].phase = "parse" /\ LockFree /\ broken
    /\ Generate
    /\ Moves(h, Return(hs[h], "err", "transport"), cache[h])
    /\ UNCHANGED <<db, lock, srv, broken, clean, log>>

\* The preludes and the payloads of the callers that hold the mutex.
Preludes == {<<"m1">>, <<"m2">>}
Payloads == {<<"b1">>, <<"b2">>}

CanCallFrontend == fe.calls < MaxFrontendOps

\* guard.register_next(msg), under the mutex.
RegisterNext ==
    /\ CanCallFrontend /\ LockFree
    /\ \E msg \in Preludes :
          fe' = [register_next(fe, msg) EXCEPT !.calls = @ + 1]
    /\ UNCHANGED <<db, lock, counter, srv, broken, hs, cache, clean, stored,
                   before, log>>

\* guard.write_data(buf), under the mutex, returning Ok.
WriteData ==
    /\ CanCallFrontend /\ LockFree /\ ~broken
    /\ \E buf \in Payloads :
          fe' = [write_data(fe, buf) EXCEPT !.calls = @ + 1]
    /\ UNCHANGED <<db, lock, counter, srv, broken, hs, cache, clean, stored,
                   before, log>>

\* guard.write_data(buf) on a transport that fails: write_all returns Err
\* and so does write_data. Nothing of it counts as written.
WriteDataFails ==
    /\ CanCallFrontend /\ LockFree
    /\ broken' = TRUE
    /\ fe' = [fe EXCEPT !.calls = @ + 1]
    /\ UNCHANGED <<db, lock, counter, srv, hs, cache, clean, stored, before, log>>

\* One turn of the loop of connect: write buf when it is not empty and drain
\* it, read a message, hand it to init.on_message; Err returns the error,
\* Ok(true) leaves the loop and returns the Connection.
ConnectStep ==
    /\ fe.status = "running" /\ ~broken /\ Len(fe.read) < MaxConnectReads
    /\ \E message \in BackendMessages :
          LET written == IF fe.buf # <<>>
                         THEN [write_data(fe, fe.buf) EXCEPT !.buf = <<>>]
                         ELSE fe
              got == [written EXCEPT !.read = Append(@, message)]
              r == InitializationStateOnMessage(message, got.buf, got)
          IN  fe' = [r.st EXCEPT !.buf = r.buf,
                                 !.status = IF ~r.ok THEN r.err
                                            ELSE IF r.done THEN "ok"
                                            ELSE "running"]
    /\ UNCHANGED <<db, lock, counter, srv, broken, hs, cache, clean, stored,
                   before, log>>

\* The transport fails under connect: in write_data, with nothing written,
\* or in read_message after buf was written. connect returns the Err.
ConnectBroken ==
    /\ fe.status = "running" /\ ~broken /\ Len(fe.read) < MaxConnectReads
    /\ broken' = TRUE
    /\ \E wrote \in BOOLEAN :
          fe' = [(IF wrote /\ fe.buf # <<>>
                  THEN [write_data(fe, fe.buf) EXCEPT !.buf = <<>>]
                  ELSE fe) EXCEPT !.status = "transport"]
    /\ UNCHANGED <<db, lock, counter, srv, hs, cache, clean, stored, before, log>>

\* The server sends a NotificationResponse while the connection is quiet; it
\* is the first message the next reader gets.
Notify ==
    /\ LockFree /\ ~broken /\ fe.notified < MaxNotifications
    /\ \A i \in 1..Len(fe.unread) : fe.unread[i] = NotificationResponse
    /\ fe' = [fe EXCEPT !.unread = Append(@, NotificationResponse),
                        !.notified = @ + 1]
    /\ UNCHANGED <<db, lock, counter, srv, broken, hs, cache, clean, stored,
                   before, log>>

\* What the server answers to a request and leaves behind the unread
\* messages: the completion, an ErrorResponse, or nothing while it skips
\* messages until Sync.
Replies(complete) ==
    IF srv.failed THEN {<<>>} ELSE {<<complete>>, <<ErrorResponse>>}

\* The match of Statement::parse and Statement::bind on the message read.
OnReply(st, msg, complete, next) ==
    IF msg = complete THEN [st EXCEPT !.phase = next]
    ELSE IF msg = ErrorResponse THEN Return(st, "err", "server")
    ELSE Return(st, "err", "should not occur here")

\* Statement::parse while a message is unread: the request is written, and
\* read_message returns the unread message in place of the reply.
ParseUnread(h) ==
    /\ hs[h].phase = "parse" /\ LockFree /\ ~broken /\ Unread
    /\ counter' = counter + 1
    /\ \E reply \in Replies(ParseComplete) :
          /\ fe' = [fe EXCEPT !.names = Append(@, generate_name(counter)),
                              !.unread = Tail(@) \o reply]
          /\ srv' = [srv EXCEPT !.failed = @ \/ reply = <<ErrorResponse>>]
    /\ Moves(h, OnReply(hs[h], Head(fe.unread), ParseComplete, "bind"), cache[h])
    /\ UNCHANGED <<db, lock, broken, clean, log>>

\* Statement::bind while a message is unread.
BindUnread(h) ==
    /\ hs[h].phase = "bind" /\ LockFree /\ ~broken /\ Unread
    /\ counter' = counter + 1
    /\ \E reply \in Replies(BindComplete) :
          /\ fe' = [fe EXCEPT !.names = Append(@, generate_name(counter)),
                              !.unread = Tail(@) \o reply]
          /\ srv' = [srv EXCEPT !.failed = @ \/ reply = <<ErrorResponse>>]
    /\ Moves(h, OnReply([hs[h] EXCEPT !.portal = Some(generate_name(counter))],
                        Head(fe.unread), BindComplete, "exec"),
             cache[h])
    /\ UNCHANGED <<db, lock, broken, clean, log>>

\* BoundQuery::next reads a message that is neither a row, an error nor the
\* end of the portal: Ok(_) => continue.
NextSkips(h) ==
    /\ hs[h].phase = "rows" /\ lock = h /\ ~broken /\ Unread
    /\ Head(fe.unread).type \in {"NotificationResponse", "ParseComplete", "BindComplete"}
    /\ fe' = [fe EXCEPT !.unread = Tail(@)]
    /\ UNCHANGED <<db, lock, counter, srv, broken, hs, cache, clean, stored,
                   before, log>>

\* The backend messages on the wire: a tag, and a body of some bytes.
WireMessages ==
    {[tag |-> "1", body |-> <<>>], [tag |-> "D", body |-> <<"a", "b", "c">>]}

\* A message as the server writes it: the tag, the length, the body.
Encode(m) == <<m.tag, Len(m.body)>> \o m.body

\* A parse that forgets the bytes behind the message it returns.
ParseDropsRest(buf) ==
    IF Len(buf) < 2 \/ Len(buf) < 2 + buf[2] THEN [msg |-> None, rest |-> buf]
    ELSE [msg |-> Some([tag |-> buf[1], body |-> SubSeq(buf, 3, 2 + buf[2])]),
          rest |-> <<>>]

\* backend::Message::parse(&mut self.buf): None while the header or the
\* body is incomplete, else the message, split off the front of the buffer.
ParseMessage(buf) ==
    IF Len(buf) < 2 \/ Len(buf) < 2 + buf[2] THEN [msg |-> None, rest |-> buf]
    ELSE [msg |-> Some([tag |-> buf[1], body |-> SubSeq(buf, 3, 2 + buf[2])]),
          rest |-> SubSeq(buf, 3 + buf[2], Len(buf))]

\* The server writes a message.
ServerWrites ==
    /\ ~fe.closed /\ ~broken /\ Len(fe.wrote) < MaxWireMessages
    /\ \E m \in WireMessages :
          fe' = [fe EXCEPT !.wire = @ \o Encode(m), !.wrote = Append(@, m)]
    /\ UNCHANGED <<db, lock, counter, srv, broken, hs, cache, clean, stored,
                   before, log>>

\* The peer closes the stream.
PeerCloses ==
    /\ ~fe.closed /\ ~broken
    /\ fe' = [fe EXCEPT !.closed = TRUE]
    /\ UNCHANGED <<db, lock, counter, srv, broken, hs, cache, clean, stored,
                   before, log>>

\* The holder of the guard calls read_message.
CallReadMessage ==
    /\ fe.pos = "idle" /\ ~broken
    /\ fe' = [fe EXCEPT !.pos = "reading"]
    /\ UNCHANGED <<db, lock, counter, srv, broken, hs, cache, clean, stored,
                   before, log>>

\* read_message: a message parses, it is returned.
ReadMessageReturns ==
    /\ fe.pos = "reading" /\ ParseMessage(fe.rbuf).msg # None
    /\ fe' = [fe EXCEPT !.consumed = Append(@, Unwrap(ParseMessage(fe.rbuf).msg)),
                        !.rbuf = ParseMessage(fe.rbuf).rest,
                        !.fills = 0,
                        !.spanned = @ \/ fe.fills > 1,
                        !.packed = @ \/ fe.fills = 0,
                        !.pos = "idle"]
    /\ UNCHANGED <<db, lock, counter, srv, broken, hs, cache, clean, stored,
                   before, log>>

\* read_message: no message parses, stream.read returns some of the bytes
\* that are there, at most a chunk, and they are added to the buffer.
ReadMessageFills ==
    /\ fe.pos = "reading" /\ ParseMessage(fe.rbuf).msg = None /\ ~broken
    /\ fe.wire # <<>>
    /\ \E len \in 1..MaxChunk :
          /\ len <= Len(fe.wire)
          /\ fe' = [fe EXCEPT !.rbuf = @ \o SubSeq(fe.wire, 1, len),
                              !.wire = SubSeq(@, len + 1, Len(@)),
                              !.fills = @ + 1]
    /\ UNCHANGED <<db, lock, counter, srv, broken, hs, cache, clean, stored,
                   before, log>>

\* read_message: no message parses and the stream is at its end: read
\* returns Ok(0), nothing is added to the buffer and the loop goes round.
ReadMessageSpins ==
    /\ fe.pos = "reading" /\ ParseMessage(fe.rbuf).msg = None /\ ~broken
    /\ fe.wire = <<>> /\ fe.closed /\ fe.spins < MaxSpins
    /\ fe' = [fe EXCEPT !.spins = @ + 1]
    /\ UNCHANGED <<db, lock, counter, srv, broken, hs, cache, clean, stored,
                   before, log>>

\* read_message: stream.read returns Err, and `?` returns it.
ReadMessageBroken ==
    /\ fe.pos = "reading" /\ ParseMessage(fe.rbuf).msg = None /\ ~broken
    /\ broken' = TRUE
    /\ fe' = [fe EXCEPT !.pos = "failed"]
    /\ UNCHANGED <<db, lock, counter, srv, hs, cache, clean, stored, before, log>>

\* The messages that end the data of a portal, and the others the server
\* may send meanwhile.
EmptyQueryResponse == [type |-> "EmptyQueryResponse"]
PortalSuspended == [type |-> "PortalSuspended"]
NoticeResponse == [type |-> "NoticeResponse"]
ReadyForQuery == [type |-> "ReadyForQuery"]
Terminators == {CommandComplete, EmptyQueryResponse, PortalSuspended}
StreamRows == {DataRow(<<1>>), DataRow(<<2>>)}

\* The messages sent so far for the portal.
StreamSent == fe.consumed \o fe.unread

\* The server sends a row of the portal, or a notice or a notification.
ServerSendsRow ==
    /\ fe.server = "running" /\ ~broken /\ Len(StreamSent) < MaxStreamMessages
    /\ \E msg \in StreamRows \cup {NoticeResponse, NotificationResponse} :
          fe' = [fe EXCEPT !.unread = Append(@, msg)]
    /\ UNCHANGED <<db, lock, counter, srv, broken, hs, cache, clean, stored,
                   before, log>>

\* The server ends the data of the portal.
ServerCompletes ==
    /\ fe.server = "running" /\ ~broken
    /\ \E msg \in Terminators :
          fe' = [fe EXCEPT !.unread = Append(@, msg), !.server = "completed"]
    /\ UNCHANGED <<db, lock, counter, srv, broken, hs, cache, clean, stored,
                   before, log>>

\* The server fails to run the portal: ErrorResponse, then it skips
\* messages until Sync.
ServerFails ==
    /\ fe.server = "running" /\ ~broken
    /\ fe' = [fe EXCEPT !.unread = Append(@, ErrorResponse), !.server = "failed"]
    /\ UNCHANGED <<db, lock, counter, srv, broken, hs, cache, clean, stored,
                   before, log>>

\* The server has read a Sync that it has not answered: ReadyForQuery.
ServerReady ==
    /\ fe.server \in {"completed", "failed"} /\ ~broken
    /\ fe.stream # <<>> /\ fe.stream[Len(fe.stream)] = <<"Sync">>
    /\ fe' = [fe EXCEPT !.unread = Append(@, ReadyForQuery), !.server = "idle"]
    /\ UNCHANGED <<db, lock, counter, srv, broken, hs, cache, clean, stored,
                   before, log>>

\* The caller's loop calls next on its BoundQuery.
CallNext ==
    /\ fe.pos = "idle" /\ fe.server # "idle"
    /\ fe' = [fe EXCEPT !.pos = "reading"]
    /\ UNCHANGED <<db, lock, counter, srv, broken, hs, cache, clean, stored,
                   before, log>>

\* A next whose match takes PortalSuspended for a message to skip.
NextArmSkipsSuspended(msg) ==
    CASE msg.type = "DataRow" -> "row"
      [] msg.type = "ErrorResponse" -> "err"
      [] msg.type \in {"EmptyQueryResponse", "CommandComplete"} -> "end"
      [] OTHER -> "continue"

\* The match of the first read of BoundQuery::next on the message.
NextArm(msg) ==
    CASE msg.type = "DataRow" -> "row"
      [] msg.type = "ErrorResponse" -> "err"
      [] msg.type \in {"EmptyQueryResponse", "PortalSuspended", "CommandComplete"} ->
            "end"
      [] OTHER -> "continue"

\* BoundQuery::next, first loop: read_message returns a message. A row and
\* an error are returned; the end of the data makes next write Sync and go
\* on to its second loop; anything else is skipped.
NextReads ==
    /\ fe.pos = "reading" /\ ~broken /\ Unread
    /\ LET msg == Head(fe.unread)
           arm == NextArm(msg)
           got == [fe EXCEPT !.unread = Tail(@), !.consumed = Append(@, msg)]
       IN  fe' = CASE arm = "row" ->
                        [got EXCEPT !.returned = Append(@, Some(msg.row)),
                                    !.pos = "idle"]
                   [] arm = "err" ->
                        [got EXCEPT !.returned = Append(@, <<"Err", "server">>),
                                    !.pos = "failed"]
                   [] arm = "end" ->
                        [write_data(got, <<"Sync">>) EXCEPT !.pos = "draining"]
                   [] OTHER -> got
    /\ UNCHANGED <<db, lock, counter, srv, broken, hs, cache, clean, stored,
                   before, log>>

\* BoundQuery::next, second loop: ReadyForQuery makes next return None, any
\* other message is skipped.
NextDrains ==
    /\ fe.pos = "draining" /\ ~broken /\ Unread
    /\ LET msg == Head(fe.unread)
           got == [fe EXCEPT !.unread = Tail(@), !.consumed = Append(@, msg)]
       IN  fe' = IF msg = ReadyForQuery
                 THEN [got EXCEPT !.returned = Append(@, None), !.pos = "done"]
                 ELSE got
    /\ UNCHANGED <<db, lock, counter, srv, broken, hs, cache, clean, stored,
                   before, log>>

\* The transport fails under a read or the write of next: Some(Err).
NextBroken ==
    /\ fe.pos \in {"reading", "draining"} /\ ~broken
    /\ broken' = TRUE
    /\ fe' = [fe EXCEPT !.returned = Append(@, <<"Err", "transport">>),
                        !.pos = "failed"]
    /\ UNCHANGED <<db, lock, counter, srv, hs, cache, clean, stored, before, log>>

\* Statement::bind, answered by BindComplete. The mutex is taken and released
\* inside.
Bind(h) ==
    /\ hs[h].phase = "bind" /\ LockFree /\ ~broken /\ ~Unread /\ ~srv.failed
    /\ Generate
    /\ Moves(h, [hs[h] EXCEPT !.phase = "exec", !.portal = Some(generate_name(counter))],
             cache[h])
    /\ UNCHANGED <<db, lock, srv, broken, clean, log>>

\* Statement::bind, answered by ErrorResponse: Err, and nothing more is sent.
BindError(h) ==
    /\ hs[h].phase = "bind" /\ LockFree /\ ~broken /\ ~Unread /\ ~srv.failed
    /\ Generate
    /\ srv' = [srv EXCEPT !.failed = TRUE]
    /\ Moves(h, Return(hs[h], "err", "server"), cache[h])
    /\ UNCHANGED <<db, lock, broken, clean, log>>

\* Statement::bind while the server skips messages until Sync: no reply comes,
\* read_message never returns and the guard is never dropped.
BindDiscarded(h) ==
    /\ hs[h].phase = "bind" /\ LockFree /\ ~broken /\ ~Unread /\ srv.failed
    /\ Generate
    /\ lock' = h
    /\ Moves(h, [hs[h] EXCEPT !.phase = "stuck"], cache[h])
    /\ UNCHANGED <<db, srv, broken, clean, log>>

\* Statement::bind on a failed transport: write_data returns Err.
BindBroken(h) ==
    /\ hs[h].phase = "bind" /\ LockFree /\ broken
    /\ Generate
    /\ Moves(h, Return(hs[h], "err", "transport"), cache[h])
    /\ UNCHANGED <<db, lock, srv, broken, clean, log>>

\* What an Execute the server runs to the end leaves in the queue's history.
LogAfterExecute(st) ==
    IF st.stmt = "queue_item_put"
    THEN [log EXCEPT !.enq = Append(@, <<st.params[1], st.params[2]>>)]
    ELSE log

\* The server refuses to run a select whose limit $3 is negative.
NegativeLimit(stmt, params) ==
    /\ stmt \in {"select_collection", "select_collection_reverse"}
    /\ params[3] < 0

\* BoundStatement::execute: the guard is taken and kept in the BoundQuery; the
\* server runs the portal and answers with its rows and CommandComplete.
Execute(h) ==
    /\ hs[h].phase = "exec" /\ LockFree /\ ~broken /\ ~srv.failed
    /\ ~NegativeLimit(hs[h].stmt, hs[h].params)
    /\ lock' = h
    /\ LET run == RunStatement(hs[h].stmt, db, hs[h].params)
       IN /\ db' = run.db
          /\ srv' = [srv EXCEPT !.inbox =
                        [i \in DOMAIN run.rows |-> DataRow(run.rows[i])]
                        \o <<CommandComplete>>]
    /\ log' = LogAfterExecute(hs[h])
    /\ Moves(h, [hs[h] EXCEPT !.phase = "rows"], cache[h])
    /\ UNCHANGED <<fe, counter, broken, clean>>

\* BoundStatement::execute of a portal the server fails to run: the statement
\* has no effect and the answer is ErrorResponse.
ExecuteError(h) ==
    /\ hs[h].phase = "exec" /\ LockFree /\ ~broken /\ ~srv.failed
    /\ lock' = h
    /\ srv' = [srv EXCEPT !.failed = TRUE, !.inbox = <<ErrorResponse>>]
    /\ Moves(h, [hs[h] EXCEPT !.phase = "rows"], cache[h])
    /\ UNCHANGED <<fe, db, counter, broken, clean, log>>

\* BoundStatement::execute while the server skips messages until Sync: the
\* BoundQuery's first next() never returns.
ExecuteDiscarded(h) ==
    /\ hs[h].phase = "exec" /\ LockFree /\ ~broken /\ srv.failed
    /\ lock' = h
    /\ Moves(h, [hs[h] EXCEPT !.phase = "stuck"], cache[h])
    /\ UNCHANGED <<fe, db, counter, srv, broken, clean, log>>

\* BoundStatement::execute on a failed transport.
ExecuteBroken(h) ==
    /\ hs[h].phase = "exec" /\ LockFree /\ broken
    /\ Moves(h, Return(hs[h], "err", "transport"), cache[h])
    /\ UNCHANGED <<fe, db, lock, counter, srv, broken, clean, log>>

InStream(h) == hs[h].phase = "rows" /\ lock = h /\ srv.inbox # <<>> /\ ~Unread

\* BoundQuery::next returns Some(Ok(row)) and the caller's loop body runs.
NextDataRow(h) ==
    /\ InStream(h) /\ Head(srv.inbox).type = "DataRow"
    /\ srv' = [srv EXCEPT !.inbox = Tail(@)]
    /\ LET row == Head(srv.inbox).row
           st2 == OnRowHandle(hs[h], row)
       IN IF st2.stmt = "select_quad" /\ st2.out[Len(st2.out)].contents.kind = "panic"
          THEN /\ Moves(h, Return(hs[h], "panic", "invalid quad contents"), cache[h])
               /\ lock' = Free
          ELSE /\ Moves(h, st2, OnRowCache(hs[h], cache[h], row))
               /\ lock' = lock
    /\ UNCHANGED <<fe, db, counter, broken, clean, log>>

\* BoundQuery::next returns Some(Err) on ErrorResponse; the caller's `?`
\* returns the error and drops the BoundQuery.
NextErrorResponse(h) ==
    /\ InStream(h) /\ Head(srv.inbox).type = "ErrorResponse"
    /\ srv' = [srv EXCEPT !.inbox = Tail(@)]
    /\ lock' = Free
    /\ Moves(h, Return(hs[h], "err", "server"), cache[h])
    /\ UNCHANGED <<fe, db, counter, broken, clean, log>>

\* What the end of a row stream leaves in the queue's history.
LogAfterStream(st) ==
    IF st.stmt = "queue_item_pop" THEN [log EXCEPT !.deq = Append(@, st.local)]
    ELSE log

\* BoundQuery::next on CommandComplete: Sync is sent, the server leaves its
\* failed state and answers ReadyForQuery, next returns None; the caller's
\* loop ends, the BoundQuery is dropped and the operation goes on.
NextComplete(h) ==
    /\ InStream(h) /\ Head(srv.inbox).type = "CommandComplete"
    /\ srv' = [srv EXCEPT !.inbox = <<>>, !.failed = FALSE]
    /\ lock' = Free
    /\ log' = LogAfterStream(hs[h])
    /\ Moves(h, AfterStmt(hs[h], cache[h]), cache[h])
    /\ UNCHANGED <<fe, db, counter, broken, clean>>

\* The transport fails under a read of the row stream: next returns
\* Some(Err), and the stream is of no use to anybody from then on.
TransportFails(h) ==
    /\ InStream(h)
    /\ broken' = TRUE
    /\ srv' = [srv EXCEPT !.inbox = <<>>]
    /\ lock' = Free
    /\ Moves(h, Return(hs[h], "err", "transport"), cache[h])
    /\ UNCHANGED <<fe, db, counter, clean, log>>

----------------------------------------------------------------------------
\* The specifications.

Init ==
    /\ db = [attribute |-> {}, attr_seq |-> 0, quad |-> {}, quad_seq |-> 0,
             queue_item |-> {}, queue_seq |-> 0,
             collection_item |-> {}, coll_seq |-> 0]
    /\ lock = Free
    /\ counter = 0
    /\ srv = [failed |-> FALSE, inbox |-> <<>>]
    /\ broken = FALSE
    /\ hs = [h \in Handles |-> IdleHandle]
    /\ cache = [h \in Handles |-> EmptyCache]
    /\ clean = [h \in Handles |-> None]
    /\ stored = [p \in Paths |-> None]
    /\ before = [h \in Handles |-> EmptyCache]
    /\ log = [enq |-> <<>>, deq |-> <<>>]
    /\ fe = Connected

\* The steps of the protocol client, whatever the operation.
Wire(h) ==
    \/ Bind(h) \/ BindError(h) \/ BindDiscarded(h) \/ BindBroken(h)
    \/ Execute(h) \/ ExecuteError(h) \/ ExecuteDiscarded(h) \/ ExecuteBroken(h)
    \/ NextDataRow(h) \/ NextErrorResponse(h) \/ NextComplete(h)
    \/ TransportFails(h)

\* Handles that intern IRIs and get and put entities over one connection.
Next == \E h \in Handles :
    \/ CallCacheUrisOp(h) \/ CallPut(h) \/ CallGet(h)
    \/ Wire(h)

Spec == Init /\ [][Next]_vars

\* Handles that use the queue over one connection.
QueueNext == \E h \in Handles :
    \/ CallAdd(h) \/ CallGetItem(h)
    \/ Wire(h)

QueueSpec == Init /\ [][QueueNext]_vars

\* Handles that also mark the entries they got as done or as failed.
MarkNext == \E h \in Handles :
    \/ CallAdd(h) \/ CallGetItem(h)
    \/ CallMarkSuccess(h) \/ CallMarkFailure(h)
    \/ Wire(h)

MarkSpec == Init /\ [][MarkNext]_vars

\* The attribute rows of two collections and five members, interned by
\* earlier operations in this order.
CollAttribute ==
    {[id |-> 1, url |-> "urn:c"], [id |-> 2, url |-> "urn:d"],
     [id |-> 3, url |-> "urn:x1"], [id |-> 4, url |-> "urn:x2"],
     [id |-> 5, url |-> "urn:x3"], [id |-> 6, url |-> "urn:x4"],
     [id |-> 7, url |-> "urn:x5"]}

\* Collection urn:c after x1..x5 were inserted in this order and all but
\* those of S were removed again, and collection urn:d holding x1.
CollRows(S) ==
    {[id |-> i, collection_id |-> 1, object_id |-> i + 2] : i \in S}
    \cup {[id |-> 6, collection_id |-> 2, object_id |-> 3]}

CollContents == {{}, {1}, {1, 3, 5}, {1, 2, 3, 4, 5}}
PageContents == {{1, 3, 5}, {1, 2, 3, 4, 5}}

\* Fresh handles over a database that holds the collections already.
CollStart(Contents) ==
    /\ \E S \in Contents :
          db = [attribute |-> CollAttribute, attr_seq |-> 7,
                quad |-> {}, quad_seq |-> 0,
                queue_item |-> {}, queue_seq |-> 0,
                collection_item |-> CollRows(S), coll_seq |-> 6]
    /\ lock = Free
    /\ counter = 0
    /\ srv = [failed |-> FALSE, inbox |-> <<>>]
    /\ broken = FALSE
    /\ hs = [h \in Handles |-> IdleHandle]
    /\ cache = [h \in Handles |-> EmptyCache]
    /\ clean = [h \in Handles |-> None]
    /\ stored = [p \in Paths |-> None]
    /\ before = [h \in Handles |-> EmptyCache]
    /\ log = [enq |-> <<>>, deq |-> <<>>]
    /\ fe = Connected

\* collection_list of the query binary: read_collection(id,
\* Some(u32::max_value()), None), to its first await.
CallCollectionList(h) ==
    /\ CanCallPage(h)
    /\ \E path \in CollPaths, checks \in BOOLEAN :
          LET pc == ParseCursor(None, checks)
              st == Begin(hs[h], "read_collection",
                          [path |-> path, count |-> Some(U32Max), cursor |-> None,
                           walk |-> Walk(h, None)])
          IN Moves(h,
                   CallCacheUris([st EXCEPT !.local =
                                     [until |-> pc.until, offset |-> pc.offset,
                                      items |-> <<>>]],
                                 cache[h], <<path>>),
                   cache[h])
    /\ clean' = [clean EXCEPT ![h] = None]
    /\ UNCHANGED <<fe, db, lock, counter, srv, broken, log>>

\* Handles that insert into, remove from and search the collections.
CollNext == \E h \in Handles :
    \/ CallInsertCollection(h) \/ CallRemoveCollection(h)
    \/ CallFindCollection(h) \/ CallReadCollectionInverse(h)
    \/ Wire(h)

CollInit == CollStart(CollContents)

CollSpec == CollInit /\ [][CollNext]_vars

\* Handles that read the pages of a collection.
PageNext == \E h \in Handles :
    \/ CallReadCollection(h)
    \/ Wire(h)

PageInit == CollStart(PageContents)

PageSpec == PageInit /\ [][PageNext]_vars

\* Handles that list a collection and read its pages.
ListNext == \E h \in Handles :
    \/ CallCollectionList(h)
    \/ CallReadCollection(h)
    \/ Wire(h)

ListInit == CollStart(PageContents)

ListSpec == ListInit /\ [][ListNext]_vars

\* The attribute and quad rows that put("urn:a", [a p b; a p "hi"]) and
\* put("urn:b", [b p a]) left.
QueryAttribute ==
    {[id |-> 1, url |-> "urn:a"], [id |-> 2, url |-> "urn:b"],
     [id |-> 3, url |-> "urn:p"], [id |-> 4, url |-> XsdString]}

QueryQuads ==
    {[id |-> 1, quad_id |-> 1, subject_id |-> 1, predicate_id |-> 3,
      attribute_id |-> Some(2), object |-> None, type_id |-> None, language |-> None],
     [id |-> 2, quad_id |-> 2, subject_id |-> 2, predicate_id |-> 3,
      attribute_id |-> Some(1), object |-> None, type_id |-> None, language |-> None]}
    \cup {[id |-> 3, quad_id |-> 1, subject_id |-> 1, predicate_id |-> 3,
            attribute_id |-> None, object |-> Some("hi"), type_id |-> Some(4),
            language |-> None]}

\* Fresh handles over a database that holds the two entities already.
QueryInit ==
    /\ db = [attribute |-> QueryAttribute, attr_seq |-> 4,
             quad |-> QueryQuads, quad_seq |-> 3,
             queue_item |-> {}, queue_seq |-> 0,
             collection_item |-> {}, coll_seq |-> 0]
    /\ lock = Free
    /\ counter = 0
    /\ srv = [failed |-> FALSE, inbox |-> <<>>]
    /\ broken = FALSE
    /\ hs = [h \in Handles |-> IdleHandle]
    /\ cache = [h \in Handles |-> EmptyCache]
    /\ clean = [h \in Handles |-> None]
    /\ stored = [p \in Paths |-> None]
    /\ before = [h \in Handles |-> EmptyCache]
    /\ log = [enq |-> <<>>, deq |-> <<>>]
    /\ fe = Connected

\* Handles that query the quads.
QueryNext == \E h \in Handles :
    \/ CallQuery(h)
    \/ Parse(h) \/ ParseError(h) \/ ParseDiscarded(h) \/ ParseBroken(h)
    \/ Wire(h)

QuerySpec == QueryInit /\ [][QueryNext]_vars

\* A quad table that holds one row under urn:a, with any combination of
\* null and non-null in attribute_id, object, type_id and language.
DecodeInit ==
    /\ \E attribute_id \in {None, Some(1)}, object \in {None, Some("hi")},
          type_id \in {None, Some(3)}, language \in {None, Some("en")} :
          db = [attribute |-> {[id |-> 1, url |-> "urn:a"], [id |-> 2, url |-> "urn:p"],
                               [id |-> 3, url |-> XsdString]},
                attr_seq |-> 3,
                quad |-> {[id |-> 1, quad_id |-> 1, subject_id |-> 1,
                           predicate_id |-> 2, attribute_id |-> attribute_id,
                           object |-> object, type_id |-> type_id,
                           language |-> language]},
                quad_seq |-> 1,
                queue_item |-> {}, queue_seq |-> 0,
                collection_item |-> {}, coll_seq |-> 0]
    /\ lock = Free
    /\ counter = 0
    /\ srv = [failed |-> FALSE, inbox |-> <<>>]
    /\ broken = FALSE
    /\ hs = [h \in Handles |-> IdleHandle]
    /\ cache = [h \in Handles |-> EmptyCache]
    /\ clean = [h \in Handles |-> None]
    /\ stored = [p \in Paths |-> None]
    /\ before = [h \in Handles |-> EmptyCache]
    /\ log = [enq |-> <<>>, deq |-> <<>>]
    /\ fe = Connected

\* Handles that get the entities.
DecodeNext == \E h \in Handles : CallGet(h) \/ Wire(h)

DecodeSpec == DecodeInit /\ [][DecodeNext]_vars

\* The caller whose operations the notifications meet.
Listener == "h1"

\* No reply was left unread: a caller whose operation ended in a protocol
\* error starts no other operation on the connection.
Synchronised == \A i \in 1..Len(fe.unread) : fe.unread[i] = NotificationResponse

\* One handle that queries while the server sends notifications. Alone on the
\* connection, it never holds a portal while the server skips messages or
\* after the transport failed.
NotifyNext ==
    \/ Notify
    \/ Synchronised /\ CallQuery(Listener)
    \/ ParseUnread(Listener) \/ BindUnread(Listener) \/ NextSkips(Listener)
    \/ Parse(Listener) \/ ParseError(Listener) \/ ParseDiscarded(Listener)
    \/ ParseBroken(Listener)
    \/ Bind(Listener) \/ BindError(Listener) \/ BindDiscarded(Listener)
    \/ BindBroken(Listener)
    \/ Execute(Listener) \/ ExecuteError(Listener)
    \/ NextDataRow(Listener) \/ NextErrorResponse(Listener)
    \/ NextComplete(Listener) \/ TransportFails(Listener)

NotifySpec == QueryInit /\ [][NotifyNext]_vars

\* A BoundQuery that execute has just returned: the Execute is written, the
\* guard is held, the server runs the portal.
StreamInit ==
    /\ db = [attribute |-> {}, attr_seq |-> 0, quad |-> {}, quad_seq |-> 0,
             queue_item |-> {}, queue_seq |-> 0,
             collection_item |-> {}, coll_seq |-> 0]
    /\ lock = Listener
    /\ counter = 0
    /\ srv = [failed |-> FALSE, inbox |-> <<>>]
    /\ broken = FALSE
    /\ hs = [h \in Handles |-> IdleHandle]
    /\ cache = [h \in Handles |-> EmptyCache]
    /\ clean = [h \in Handles |-> None]
    /\ stored = [p \in Paths |-> None]
    /\ before = [h \in Handles |-> EmptyCache]
    /\ log = [enq |-> <<>>, deq |-> <<>>]
    /\ fe = [Connected EXCEPT !.server = "running"]

StreamNext ==
    \/ ServerSendsRow \/ ServerCompletes \/ ServerFails \/ ServerReady
    \/ CallNext \/ NextReads \/ NextDrains \/ NextBroken

StreamSpec == StreamInit /\ [][StreamNext]_vars

\* A holder of the guard that calls read_message time after time while the
\* server writes and the reads split the bytes as they like.
ReadNext ==
    \/ ServerWrites \/ PeerCloses \/ CallReadMessage
    \/ ReadMessageReturns \/ ReadMessageFills \/ ReadMessageSpins
    \/ ReadMessageBroken

ReadSpec == Init /\ [][ReadNext]_vars

\* connect over a fresh stream: the startup message is in buf, no handle is
\* at work before the Connection exists.
ConnectInit ==
    /\ db = [attribute |-> {}, attr_seq |-> 0, quad |-> {}, quad_seq |-> 0,
             queue_item |-> {}, queue_seq |-> 0,
             collection_item |-> {}, coll_seq |-> 0]
    /\ lock = Free
    /\ counter = 0
    /\ srv = [failed |-> FALSE, inbox |-> <<>>]
    /\ broken = FALSE
    /\ hs = [h \in Handles |-> IdleHandle]
    /\ cache = [h \in Handles |-> EmptyCache]
    /\ clean = [h \in Handles |-> None]
    /\ stored = [p \in Paths |-> None]
    /\ before = [h \in Handles |-> EmptyCache]
    /\ log = [enq |-> <<>>, deq |-> <<>>]
    /\ fe = [NewFrontend EXCEPT !.buf = <<<<"StartupMessage", Username>>>>]

ConnectNext == ConnectStep \/ ConnectBroken

ConnectSpec == ConnectInit /\ [][ConnectNext]_vars

\* Callers that queue preludes and write payloads on a connected Frontend.
FrontendNext == RegisterNext \/ WriteData \/ WriteDataFails

FrontendSpec == Init /\ [][FrontendNext]_vars

----------------------------------------------------------------------------
\* What the claims speak of, stated on the tables rather than on the caches.

\* The surrogate id the attribute table holds for an IRI.
Interned(d, u) == \E r \in d.attribute : r.url = u
AttrId(d, u) == (CHOOSE r \in d.attribute : r.url = u).id

\* The columns of a quad row other than its own id.
RowContents(r) ==
    [quad_id |-> r.quad_id, subject_id |-> r.subject_id,
     predicate_id |-> r.predicate_id, attribute_id |-> r.attribute_id,
     object |-> r.object, type_id |-> r.type_id, language |-> r.language]

\* The row the data model asks for, for one quad of the graph stored at path.
ExpectedRow(d, path, quad) ==
    LET c == quad.contents
    IN [quad_id |-> AttrId(d, path),
        subject_id |-> AttrId(d, quad.subject_id),
        predicate_id |-> AttrId(d, quad.predicate_id),
        attribute_id |-> IF c.kind = "Id" THEN Some(AttrId(d, c.id)) ELSE None,
        object |-> IF c.kind = "Id" THEN None ELSE Some(c.content),
        type_id |-> IF c.kind = "Id" THEN None ELSE Some(AttrId(d, c.type_id)),
        language |-> IF c.kind = "Id" THEN None ELSE c.language]

\* The rows of the graph stored at path, in id order.
GraphRows(d, path) ==
    IF Interned(d, path)
    THEN SortById({r \in d.quad : r.quad_id = AttrId(d, path)})
    ELSE <<>>

\* The graph stored at path is the graph of item, one row per quad.
HoldsGraph(d, path, item) ==
    /\ PutUris(path, item) \subseteq {r.url : r \in d.attribute}
    /\ SameBag([i \in DOMAIN GraphRows(d, path) |-> RowContents(GraphRows(d, path)[i])],
               [i \in DOMAIN item |-> ExpectedRow(d, path, item[i])])

\* This step is the return of h's operation op with Ok.
ReturnsOk(h, op) ==
    hs[h].op = op /\ hs'[h].op = "none" /\ hs'[h].result.status = "ok"

\* The rows stored under other graphs than path.
OtherGraphs(d, path) ==
    IF Interned(d, path) THEN {r \in d.quad : r.quad_id # AttrId(d, path)}
    ELSE d.quad

----------------------------------------------------------------------------
\* C1: when put(path, item) returns Ok and no other put ran meanwhile, the
\* rows under path's surrogate id are exactly the rows of item's quads, one
\* per quad, all of them inserted by this put; and no step of such a put
\* changes a row stored under another quad_id.
C1_PutReplacesGraph ==
    [][\A h \in Handles :
          /\ (ReturnsOk(h, "put") /\ clean[h] # None) =>
                /\ HoldsGraph(db', hs[h].args.path, hs[h].args.item)
                /\ \A r \in Range(GraphRows(db', hs[h].args.path)) :
                      r.id > Unwrap(clean[h])
          /\ (hs[h].op = "put" /\ clean[h] # None) =>
                OtherGraphs(db', hs[h].args.path) = OtherGraphs(db, hs[h].args.path)
      ]_vars

\* A put that nobody disturbed has returned Ok and replaced an earlier graph
\* of two rows by a graph of one row.
C1_Witness ==
    \E h \in Handles :
       /\ hs[h].result.op = "put" /\ hs[h].result.status = "ok"
       /\ clean[h] # None /\ Unwrap(clean[h]) = 2
       /\ hs[h].result.args.item = ItemB
       /\ Len(GraphRows(db, hs[h].result.args.path)) = 1
       /\ db.quad = Range(GraphRows(db, hs[h].result.args.path))

----------------------------------------------------------------------------
\* C2: when get(path) returns Ok after a put(path, Q) that nobody disturbed,
\* with no put to path in between, the quads it translated are exactly Q:
\* same subject, predicate and object id, or same literal value, datatype IRI
\* and language tag.
C2_RoundTrip ==
    [][\A h \in Handles :
          (ReturnsOk(h, "get") /\ clean[h] # None) =>
              /\ hs'[h].result.value # None
              /\ SameBag(Unwrap(hs'[h].result.value), Unwrap(clean[h]))
      ]_vars

----------------------------------------------------------------------------
\* C3: when cache_uris(urls) has returned Ok, every url is a key of
\* uri_to_id on that handle: a cache_uris called on its own leaves all its
\* urls cached, a get or put that went past its cache_uris has the IRIs it
\* looks up cached, and no operation ends on a missed uri_to_id lookup.
C3_UrisCached ==
    \A h \in Handles :
       /\ (hs[h].result.op = "cache_uris" /\ hs[h].result.status = "ok") =>
             Range(hs[h].result.args.uris) \subseteq DOMAIN cache[h].uri_to_id
       /\ (hs[h].op = "get" /\ hs[h].stmt # "upsert_attributes") =>
             hs[h].args.path \in DOMAIN cache[h].uri_to_id
       /\ (hs[h].op = "put" /\ hs[h].stmt # "upsert_attributes") =>
             PutUris(hs[h].args.path, hs[h].args.item) \subseteq DOMAIN cache[h].uri_to_id
       /\ ~(hs[h].result.status = "panic" /\ hs[h].result.value = "uri_to_id")

\* cache_uris has returned Ok on one handle for urls that the other handle,
\* whose upsert of some of them is bound and not yet executed, interns too,
\* and one of which was in the attribute table before.
C3_Witness ==
    \E h \in Handles, g \in Handles :
       /\ h # g
       /\ hs[h].result.op = "cache_uris" /\ hs[h].result.status = "ok"
       /\ hs[g].stmt = "upsert_attributes" /\ hs[g].phase = "exec"
       /\ Range(hs[g].params[1]) \cap Range(hs[h].result.args.uris) # {}

\* cache_uris has returned Ok on a handle for urls the other handle had
\* interned before.
C3_WitnessAfter ==
    \E h \in Handles, g \in Handles :
       /\ h # g
       /\ hs[h].result.op = "cache_uris" /\ hs[h].result.status = "ok"
       /\ \E u \in Range(hs[h].result.args.uris) :
             /\ u \in DOMAIN cache[g].uri_to_id
             /\ u \in DOMAIN cache[h].uri_to_id
             /\ cache[g].uri_to_id[u] < cache[h].uri_to_id["urn:b"]

----------------------------------------------------------------------------
\* C4: on every handle the two interning maps are mutual inverses.
C4_Bijective ==
    \A h \in Handles :
       /\ \A u \in DOMAIN cache[h].uri_to_id :
             /\ cache[h].uri_to_id[u] \in DOMAIN cache[h].id_to_uri
             /\ cache[h].id_to_uri[cache[h].uri_to_id[u]] = u
       /\ \A i \in DOMAIN cache[h].id_to_uri :
             /\ cache[h].id_to_uri[i] \in DOMAIN cache[h].uri_to_id
             /\ cache[h].uri_to_id[cache[h].id_to_uri[i]] = i

\* A handle whose get went through cache_uris and cache_ids holds four pairs.
C4_Witness ==
    \E h \in Handles :
       /\ hs[h].result.op = "get" /\ hs[h].result.status = "ok"
       /\ hs[h].result.value # None
       /\ Cardinality(DOMAIN cache[h].id_to_uri) >= 4

----------------------------------------------------------------------------
\* C5: every pair a handle has cached is a row of the attribute table.
C5_CacheIsTable ==
    \A h \in Handles :
       /\ \A u \in DOMAIN cache[h].uri_to_id :
             [id |-> cache[h].uri_to_id[u], url |-> u] \in db.attribute
       /\ \A i \in DOMAIN cache[h].id_to_uri :
             [id |-> i, url |-> cache[h].id_to_uri[i]] \in db.attribute

\* Both handles have cached the same url, one of them after the other had
\* sent it to upsert_attributes again.
C5_Witness ==
    \E h \in Handles, g \in Handles :
       /\ h # g
       /\ "urn:a" \in DOMAIN cache[h].uri_to_id
       /\ "urn:a" \in DOMAIN cache[g].uri_to_id
       /\ db.attr_seq >= 4

----------------------------------------------------------------------------
\* The steps of the interning cache.

\* No pair of h's cache is removed or changed by this step.
CacheGrows(h) ==
    /\ \A u \in DOMAIN cache[h].uri_to_id :
          u \in DOMAIN cache'[h].uri_to_id
          /\ cache'[h].uri_to_id[u] = cache[h].uri_to_id[u]
    /\ \A i \in DOMAIN cache[h].id_to_uri :
          i \in DOMAIN cache'[h].id_to_uri
          /\ cache'[h].id_to_uri[i] = cache[h].id_to_uri[i]

\* This step is the return of Err from h's cache_uris or cache_ids.
CachingFails(h) ==
    /\ hs[h].stmt \in {"upsert_attributes", "select_attributes"}
    /\ hs'[h].op = "none" /\ hs'[h].result.status = "err"

\* The attribute rows the statement h is at selects by its parameter.
Selected(h) ==
    {r \in db.attribute :
        IF hs[h].stmt = "upsert_attributes" THEN r.url \in Range(hs[h].params[1])
        ELSE r.id \in Range(hs[h].params[1])}

----------------------------------------------------------------------------
\* C6: no step removes or changes a cached pair; and when a cache_uris or
\* cache_ids fails, the cache holds what it held when the statement started
\* plus at most pairs the database returned for the statement's parameter,
\* and exactly what it held when the server failed the statement itself.
C6_CacheOnlyGrows ==
    [][\A h \in Handles :
          /\ CacheGrows(h)
          /\ CachingFails(h) =>
                /\ \A u \in DOMAIN cache'[h].uri_to_id \ DOMAIN before[h].uri_to_id :
                      [id |-> cache'[h].uri_to_id[u], url |-> u] \in Selected(h)
                /\ \A i \in DOMAIN cache'[h].id_to_uri \ DOMAIN before[h].id_to_uri :
                      [id |-> i, url |-> cache'[h].id_to_uri[i]] \in Selected(h)
                /\ hs'[h].result.value = "server" => cache'[h] = before[h]
      ]_vars

\* A cache_uris failed after the first of its two rows: the cache holds one
\* new pair and still lacks a url of the call.
C6_Witness ==
    \E h \in Handles :
       /\ hs[h].result.op = "cache_uris" /\ hs[h].result.status = "err"
       /\ hs[h].result.value = "transport"
       /\ DOMAIN cache[h].uri_to_id = {"urn:b"}
       /\ before[h] = EmptyCache

----------------------------------------------------------------------------
\* C7: while a handle holds a BoundQuery it holds the connection's mutex, so
\* no second BoundQuery exists, and every step that reads from or writes to
\* the stream (it moves the name counter, the server's session, the tables
\* or the mutex) is a step of that handle: the other handles stay where
\* they are.
C7_OneStreamAtATime ==
    [][\A h \in Handles :
          hs[h].phase = "rows" =>
             /\ lock = h
             /\ \A g \in Handles \ {h} : hs[g].phase # "rows"
             /\ <<counter, srv, db, lock>>' # <<counter, srv, db, lock>> =>
                   \A g \in Handles \ {h} : hs'[g] = hs[g]
      ]_vars

\* One handle is inside its row stream while the other waits to bind or to
\* execute.
C7_Witness ==
    \E h \in Handles, g \in Handles :
       /\ hs[h].phase = "rows" /\ srv.inbox # <<>>
       /\ hs[g].phase \in {"bind", "exec"}

----------------------------------------------------------------------------
\* C8: whenever the server answered ErrorResponse, the client has sent Sync
\* and read up to ReadyForQuery before the caller has the error: once the
\* mutex is free again the server is not left skipping messages, and no
\* later operation waits for ever for a reply.
C8_ErrorDrained ==
    /\ LockFree => ~srv.failed
    /\ \A h \in Handles : hs[h].phase # "stuck"

----------------------------------------------------------------------------
\* C9: when both handles have put the same path and both puts returned Ok,
\* the graph stored at the path is the graph of exactly one of the two items.
C9_PutsSerialized ==
    \A h \in Handles, g \in Handles :
       (/\ h # g
        /\ hs[h].result.op = "put" /\ hs[h].result.status = "ok"
        /\ hs[g].result.op = "put" /\ hs[g].result.status = "ok"
        /\ hs[h].result.args.path = hs[g].result.args.path)
       => \/ HoldsGraph(db, hs[h].result.args.path, hs[h].result.args.item)
          \/ HoldsGraph(db, hs[g].result.args.path, hs[g].result.args.item)

----------------------------------------------------------------------------
\* C10: with add and get_item alone, each get_item returns the oldest entry
\* that was added and not yet returned (the k-th get_item that returns an
\* entry returns the k-th entry added), and it returns None exactly when
\* every entry added so far has been returned.
C10_QueueFifo ==
    [][log'.deq # log.deq =>
          LET v == log'.deq[Len(log'.deq)]
              k == Len(SelectSeq(log.deq, IsSome))
          IN IF v # None
             THEN k < Len(log.enq) /\ Unwrap(v) = log.enq[k + 1]
             ELSE k = Len(log.enq)
      ]_vars

\* Two different entries were added and two get_item calls returned them in
\* the order of the adds.
C10_Witness ==
    /\ log.enq = << <<"e2", "d2">>, <<"e1", "d1">> >>
    /\ log.deq = << Some(<<"e2", "d2">>), Some(<<"e1", "d1">>) >>
    /\ \E h \in Handles : hs[h].result.op = "get_item" /\ hs[h].result.status = "ok"
                          /\ hs[h].result.value = Some(<<"e1", "d1">>)

----------------------------------------------------------------------------
\* The entries the get_item calls have returned so far, in order.
Returned == [i \in DOMAIN SelectSeq(log.deq, IsSome) |->
                Unwrap(SelectSeq(log.deq, IsSome)[i])]

\* C11: under every interleaving of the handles' get_item calls no entry is
\* returned more often than it was added, two handles never hold the same
\* entry unless it was added twice, and when one entry was added and the
\* get_item calls, none of which failed, have emptied the queue, exactly one
\* of them returned the entry and every other one returned None.
C11_PopAtMostOnce ==
    /\ \A e \in Events : Occurrences(Returned, e) <= Occurrences(log.enq, e)
    /\ \A h \in Handles, g \in Handles :
          (/\ h # g
           /\ hs[h].result.op = "get_item" /\ hs[h].result.status = "ok"
           /\ hs[g].result.op = "get_item" /\ hs[g].result.status = "ok"
           /\ hs[h].result.value # None
           /\ hs[h].result.value = hs[g].result.value)
          => Occurrences(log.enq, Unwrap(hs[h].result.value)) >= 2
    /\ (/\ Len(log.enq) = 1 /\ db.queue_item = {} /\ ~broken
        /\ \A h \in Handles : ~(hs[h].stmt = "queue_item_pop" /\ hs[h].phase = "rows"))
          => Len(Returned) = 1

\* One entry was added by a handle that then called get_item, as did the
\* other handle: one call returned the entry and the other returned None.
C11_Witness ==
    \E h \in Handles, g \in Handles :
       /\ h # g
       /\ Len(log.enq) = 1
       /\ hs[h].result.op = "get_item" /\ hs[h].result.status = "ok"
       /\ hs[h].result.value = Some(log.enq[1])
       /\ hs[g].result.op = "get_item" /\ hs[g].result.status = "ok"
       /\ hs[g].result.value = None
       /\ hs[h].nops = 1 /\ hs[g].nops = 2
       /\ counter = 3

----------------------------------------------------------------------------
\* The rows this step adds to queue_item.
NewQueueRows == db'.queue_item \ db.queue_item

\* C12: mark_success returns Ok at once, changing no table and sending
\* nothing on the wire; the insert of mark_failure adds exactly one row, with
\* the event and data of the marked entry and an id after every id the queue
\* has used, and removes none; and a row enters queue_item in no other way
\* than by the insert of an add or of a mark_failure, so that an entry that
\* was popped is queued again only if mark_failure was called for it.
C12_MarkRequeues ==
    [][\A h \in Handles :
          /\ (hs'[h] # hs[h] /\ hs'[h].result.op = "mark_success") =>
                /\ hs'[h].op = "none" /\ hs'[h].result.status = "ok"
                /\ UNCHANGED <<db, lock, counter, srv, broken, log>>
          /\ (/\ hs[h].op = "mark_failure" /\ hs[h].phase = "exec"
              /\ hs'[h].phase = "rows" /\ ~srv'.failed) =>
                /\ db.queue_item \subseteq db'.queue_item
                /\ Cardinality(NewQueueRows) = 1
                /\ \A r \in NewQueueRows :
                      /\ r.event = hs[h].args.event /\ r.data = hs[h].args.data
                      /\ r.id > db.queue_seq
                      /\ \A q \in db.queue_item : r.id > q.id
          /\ (hs'[h] # hs[h] /\ NewQueueRows # {}) =>
                /\ hs[h].op \in {"add", "mark_failure"}
                /\ hs[h].phase = "exec"
                /\ \A r \in NewQueueRows :
                      r.event = hs[h].args.event /\ r.data = hs[h].args.data
      ]_vars

\* An entry was added, popped and marked as failed: mark_failure has
\* returned and the entry is in the queue again, under a new id.
C12_Witness ==
    \E h \in Handles :
       /\ hs[h].result.op = "mark_failure" /\ hs[h].result.status = "ok"
       /\ log.deq = << Some(<<hs[h].result.args.event, hs[h].result.args.data>>) >>
       /\ db.queue_item = {[id |-> 2, event |-> hs[h].result.args.event,
                                     data |-> hs[h].result.args.data]}

----------------------------------------------------------------------------
\* The server runs statement stmt of handle h in this step.
Runs(h, stmt) ==
    /\ hs[h].stmt = stmt /\ hs[h].phase = "exec"
    /\ hs'[h].phase = "rows" /\ ~srv'.failed

\* The row stream of statement stmt of handle h ends in this step.
Completes(h, stmt) ==
    /\ hs[h].stmt = stmt /\ hs[h].phase = "rows"
    /\ Head(srv.inbox).type = "CommandComplete" /\ hs'[h] # hs[h] /\ ~broken'

\* The collection_item rows of object o in collection c.
Members(d, c, o) ==
    {r \in d.collection_item : r.collection_id = c /\ r.object_id = o}

\* C13: an insert_collection(P, X) leaves exactly one row (P, X) and touches
\* no other row; when a row (P, X) was there already (X was inserted before)
\* the insert changes nothing, so X keeps the row id of its first insert, and
\* the call returns Ok all the same.
C13_InsertIdempotent ==
    [][\A h \in Handles :
          /\ Runs(h, "insert_collection") =>
                LET c == hs[h].params[1]
                    o == hs[h].params[2]
                IN /\ Cardinality(Members(db', c, o)) = 1
                   /\ db'.collection_item \ Members(db', c, o)
                         = db.collection_item \ Members(db, c, o)
                   /\ Members(db, c, o) # {} => db' = db
          /\ Completes(h, "insert_collection") =>
                hs'[h].op = "none" /\ hs'[h].result.status = "ok"
      ]_vars

\* insert_collection(urn:c, urn:x4) returned Ok on a collection that held x4
\* already: x4 is still in row 4 and no row was added.
C13_Witness ==
    \E h \in Handles :
       /\ hs[h].result.op = "insert_collection" /\ hs[h].result.status = "ok"
       /\ hs[h].result.args.item = "urn:x4"
       /\ Members(db, 1, 6) = {[id |-> 4, collection_id |-> 1, object_id |-> 6]}
       /\ db.coll_seq = 6

----------------------------------------------------------------------------
\* C14: a remove_collection(P, X) leaves no row (P, X) and touches no other
\* row; when there was no row (P, X), because X was removed before or was
\* never in P, it changes nothing, and the call returns Ok all the same.
C14_RemoveIdempotent ==
    [][\A h \in Handles :
          /\ Runs(h, "delete_collection") =>
                LET c == hs[h].params[1]
                    o == hs[h].params[2]
                IN /\ Members(db', c, o) = {}
                   /\ db'.collection_item = db.collection_item \ Members(db, c, o)
                   /\ Members(db, c, o) = {} => db' = db
          /\ Completes(h, "delete_collection") =>
                hs'[h].op = "none" /\ hs'[h].result.status = "ok"
      ]_vars

\* remove_collection(urn:c, urn:x4) returned Ok on a collection from which
\* x4 had been removed before: the rows are those it held.
C14_Witness ==
    \E h \in Handles :
       /\ hs[h].result.op = "remove_collection" /\ hs[h].result.status = "ok"
       /\ hs[h].result.args.item = "urn:x4"
       /\ db.collection_item = CollRows({1, 3, 5})
       /\ Started = 1

----------------------------------------------------------------------------
\* C15: when find_collection(path, item) returns Ok, the pointer's items are
\* exactly [item] if a collection_item row with that collection and that
\* object exists, and the pointer is empty otherwise.
C15_FindMembership ==
    [][\A h \in Handles :
          ReturnsOk(h, "find_collection") =>
             IF Members(db, AttrId(db, hs[h].args.path),
                        AttrId(db, hs[h].args.item)) # {}
             THEN hs'[h].result.value.items = <<hs[h].args.item>>
             ELSE hs'[h].result.value = EmptyPointer
      ]_vars

----------------------------------------------------------------------------
\* The IRIs of the collections that hold a row for the IRI item.
CollectionsOf(d, item) ==
    IF Interned(d, item)
    THEN {a.url : a \in {a \in d.attribute :
                    \E r \in d.collection_item :
                       r.collection_id = a.id /\ r.object_id = AttrId(d, item)}}
    ELSE {}

\* C16: when read_collection_inverse(item) returns Ok, the pointer lists
\* exactly the IRIs of the collections that hold item, each once, and both
\* cursors are None.
C16_InverseLists ==
    [][\A h \in Handles :
          (/\ hs'[h] # hs[h]
           /\ hs'[h].result.op = "read_collection_inverse"
           /\ hs'[h].result.status = "ok") =>
             LET ptr == hs'[h].result.value
             IN /\ Range(ptr.items) = CollectionsOf(db, hs'[h].result.args.item)
                /\ Len(ptr.items) = Cardinality(CollectionsOf(db, hs'[h].result.args.item))
                /\ ptr.after = None /\ ptr.before = None
      ]_vars

----------------------------------------------------------------------------
\* Handle h's operation op returns Ok in this step, be it at once or after
\* statements; the arguments and the value are in the result it leaves.
Answers(h, op) ==
    /\ hs'[h].result.op = op /\ hs'[h].result.status = "ok"
    /\ hs[h].op = op \/ hs'[h].nops # hs[h].nops

\* The IRIs of the members of the collection with IRI path.
MemberUrls(d, path) ==
    {a.url : a \in {a \in d.attribute :
                \E r \in d.collection_item :
                   r.collection_id = AttrId(d, path) /\ r.object_id = a.id}}

\* C17: on a walk that starts at read_collection(C, count, None) and passes
\* back the cursor of one direction, with nobody writing to C, no item comes
\* on two pages, and when a page comes without the cursor of the walk's
\* direction (the walk ends there) every member of C has come on a page.
C17_WalkVisitsAll ==
    [][\A h \in Handles :
          (Answers(h, "read_collection") /\ hs'[h].result.args.walk.dir # "none") =>
             LET ptr == hs'[h].result.value
                 dir == hs'[h].result.args.walk.dir
                 visited == hs'[h].result.args.walk.seen \o ptr.items
                 ends == \/ dir \in {"start", "after"} /\ ptr.after = None
                         \/ dir \in {"start", "before"} /\ ptr.before = None
             IN /\ \A i \in DOMAIN visited, j \in DOMAIN visited :
                      visited[i] = visited[j] => i = j
                /\ ends => Range(visited) = MemberUrls(db, hs'[h].result.args.path)
      ]_vars

----------------------------------------------------------------------------
\* C18: with x1..x5 inserted into urn:c in that order (rows 1..5),
\* read_collection(urn:c, 2, None) returns [x5, x4] with before = before-6
\* and after = after-3; the page for that after cursor is [x3, x2], and the
\* page after that is [x1] with after = None.
C18_PagesOfTwo ==
    [][\A h \in Handles :
          (/\ Answers(h, "read_collection")
           /\ db.collection_item = CollRows({1, 2, 3, 4, 5})
           /\ hs'[h].result.args.count = Some(U32(2))) =>
             LET ptr == hs'[h].result.value
                 walk == hs'[h].result.args.walk
             IN /\ walk.dir = "start" =>
                      /\ ptr.items = <<"urn:x5", "urn:x4">>
                      /\ ptr.before = Some(FormatBefore(6))
                      /\ ptr.after = Some(FormatAfter(3))
                /\ (walk.dir = "after" /\ Len(walk.seen) = 2) =>
                      ptr.items = <<"urn:x3", "urn:x2">>
                /\ (walk.dir = "after" /\ Len(walk.seen) = 4) =>
                      ptr.items = <<"urn:x1">> /\ ptr.after = None
      ]_vars

\* The cursor grammar: no cursor, before-<i32> or after-<i32>, and the
\* direction and offset each one stands for.
CursorMeaning(cursor) ==
    LET value == Unwrap(cursor)
        afterN == ParseI32(SubSeq(value, Len(AfterPrefix) + 1, Len(value)))
        beforeN == ParseI32(SubSeq(value, Len(BeforePrefix) + 1, Len(value)))
    IN IF cursor = None
       THEN [valid |-> TRUE, reverse |-> TRUE, offset |-> I32Max]
       ELSE IF StartsWith(value, BeforePrefix) /\ beforeN # None
       THEN [valid |-> TRUE, reverse |-> TRUE, offset |-> Unwrap(beforeN)]
       ELSE IF StartsWith(value, AfterPrefix) /\ afterN # None
       THEN [valid |-> TRUE, reverse |-> FALSE, offset |-> Unwrap(afterN)]
       ELSE [valid |-> FALSE]

\* Handle h's read_collection ends in this step without a statement of its
\* own: it returns or panics in the call.
EndsInCall(h) ==
    /\ hs[h].op = "none" /\ hs'[h] # hs[h]
    /\ hs'[h].op \in {"none", "panicked"}
    /\ hs'[h].result.op = "read_collection"

\* Handle h's read_collection starts its select statement in this step.
StartsSelect(h) ==
    /\ hs'[h].stmt \in {"select_collection", "select_collection_reverse"}
    /\ hs[h].stmt # hs'[h].stmt

\* C19: a read_collection with cursor before-N runs select_collection_reverse
\* with offset N, with cursor after-N it runs select_collection with offset
\* N, and with no cursor it runs select_collection_reverse with offset
\* i32::MAX; with such a cursor the call never ends before its statement.
C19_CursorOffset ==
    [][\A h \in Handles :
          /\ StartsSelect(h) =>
                LET m == CursorMeaning(hs'[h].args.cursor)
                IN /\ m.valid
                   /\ hs'[h].stmt = (IF m.reverse THEN "select_collection_reverse"
                                     ELSE "select_collection")
                   /\ hs'[h].params[2] = m.offset
          /\ EndsInCall(h) => ~CursorMeaning(hs'[h].result.args.cursor).valid
      ]_vars

\* C20: a read_collection whose cursor is neither before-<i32> nor
\* after-<i32> fails with `unknown collection cursor` in the call, before any
\* statement: it neither returns Ok nor panics nor goes on to the database.
C20_UnknownCursor ==
    [][\A h \in Handles :
          /\ (hs'[h] # hs[h] /\ hs'[h].result.op = "read_collection"
                /\ ~CursorMeaning(hs'[h].result.args.cursor).valid) =>
                /\ hs'[h].result.status = "err"
                /\ hs'[h].result.value = "unknown collection cursor"
          /\ hs'[h].op = "read_collection" =>
                CursorMeaning(hs'[h].args.cursor).valid
      ]_vars

----------------------------------------------------------------------------
\* The id of the collection_item row that makes url a member of path.
MemberRowId(d, path, url) ==
    (CHOOSE r \in d.collection_item :
        /\ r.collection_id = AttrId(d, path)
        /\ r.object_id = AttrId(d, url)).id

\* C21: when read_collection returns fewer items than the requested count
\* (zero included), the cursor that points further in the direction of the
\* paging is None; when it returns items, after and before are made of the
\* ids of the first and of the last returned item.
C21_ShortPageEnds ==
    [][\A h \in Handles :
          (/\ Answers(h, "read_collection")
           /\ CursorMeaning(hs'[h].result.args.cursor).valid) =>
             LET args == hs'[h].result.args
                 ptr == hs'[h].result.value
                 n == Len(ptr.items)
             IN /\ n < Limit(args.count) =>
                      IF CursorMeaning(args.cursor).reverse
                      THEN ptr.before = None
                      ELSE ptr.after = None
                /\ n > 0 =>
                      /\ ptr.after =
                           Some(FormatAfter(MemberRowId(db, args.path, ptr.items[1])))
                      /\ ptr.before =
                           Some(FormatBefore(MemberRowId(db, args.path, ptr.items[n])))
      ]_vars

----------------------------------------------------------------------------
\* Some QuadQuery carries Any([]) as its subject, its predicate, its object
\* id or its literal type.
CarriesEmptyAny(query) ==
    \E i \in DOMAIN query :
       \/ query[i].subject = QAny(<<>>)
       \/ query[i].predicate = QAny(<<>>)
       \/ query[i].object.kind = "Id" /\ query[i].object.id = QAny(<<>>)
       \/ query[i].object.kind = "Object" /\ query[i].object.type_id = QAny(<<>>)

\* C22: a query of which some QuadQuery carries Any([]) in any position
\* (subject, predicate, object id, literal type) returns [] in the call: it
\* never goes on to a statement (no Parse, Bind or Execute), and what it
\* returns is Ok([]).
C22_EmptyAnyNoSql ==
    [][\A h \in Handles :
          /\ hs'[h].op = "query" => ~CarriesEmptyAny(hs'[h].args.query)
          /\ (hs'[h].result.op = "query"
                /\ (hs[h].op = "query" \/ hs'[h].nops # hs[h].nops)
                /\ CarriesEmptyAny(hs'[h].result.args.query)) =>
                /\ hs'[h].result.status = "ok"
                /\ hs'[h].result.value = <<>>
      ]_vars

\* C23: query changes no persisted table (attribute, quad, collection_item,
\* queue_item), whatever IRIs its Value and Any constraints name; here the
\* handles run nothing but queries.
C23_QueryReadOnly ==
    [][/\ db'.attribute = db.attribute
       /\ db'.quad = db.quad
       /\ db'.collection_item = db.collection_item
       /\ db'.queue_item = db.queue_item
      ]_vars

----------------------------------------------------------------------------
\* The IRI the attribute table holds for a surrogate id.
UrlOf(d, id) == (CHOOSE r \in d.attribute : r.id = id).url

\* In a combination of quad rows, all the columns bound to each placeholder
\* of the query hold the same surrogate id.
PlaceholdersAgree(query, combo) ==
    \A k \in DOMAIN Placeholders(query) :
       \A a, b \in Range(Placeholders(query)[k]) :
          SqlEq(ColumnOf(combo, a), ColumnOf(combo, b))

\* The tuple of a combination: per placeholder in ascending key order, the
\* IRI of the first column bound to it.
TupleOf(d, query, combo) ==
    LET ph == Placeholders(query)
        keys == SortInts(DOMAIN ph)
    IN [j \in DOMAIN keys |-> UrlOf(d, Unwrap(ColumnOf(combo, ph[keys[j]][1])))]

\* A cell meets a QueryId: it holds the IRI of a Value, one of the IRIs of an
\* Any; a Placeholder and Ignore ask nothing of a cell on its own.
Meets(d, cell, qid) ==
    CASE qid.kind = "Value" -> IsSome(cell) /\ UrlOf(d, Unwrap(cell)) = qid.val
      [] qid.kind = "Any" -> IsSome(cell) /\ UrlOf(d, Unwrap(cell)) \in Range(qid.any)
      [] OTHER -> TRUE

\* A combination of quad rows matches the patterns of a query, one row per
\* pattern: the constraints on the ids, and the literal's value and language.
Matches(d, query, combo) ==
    /\ \A c \in Range(QueryColumns(query, 1)) : Meets(d, ColumnOf(combo, c[1]), c[2])
    /\ \A i \in DOMAIN query :
          /\ query[i].object.kind \in {"Object", "LanguageString"} =>
                combo[i].object = Some(query[i].object.value)
          /\ query[i].object.kind = "LanguageString" =>
                combo[i].language = Some(query[i].object.language)
    /\ PlaceholdersAgree(query, combo)

\* Handle h starts the statement of its query in this step.
StartsQueryText(h) == hs'[h].phase = "parse" /\ hs[h].phase # "parse"

\* C24: when a placeholder is bound at several positions, every tuple query
\* returns comes from a combination of quad rows in which all the columns
\* bound to it hold the same surrogate id; for a group of m >= 2 columns the
\* text carries the m - 1 equalities that chain consecutive columns.
C24_PlaceholderJoin ==
    [][\A h \in Handles :
          /\ Answers(h, "query") =>
                LET query == hs'[h].result.args.query
                    value == hs'[h].result.value
                IN \A t \in DOMAIN value :
                      \E combo \in Range(Combinations(db.quad, Len(query))) :
                         /\ Matches(db, query, combo)
                         /\ value[t] = TupleOf(db, query, combo)
          /\ StartsQueryText(h) =>
                LET ph == Placeholders(hs'[h].args.query)
                    joins == hs'[h].params[1].joins
                IN /\ \A k \in DOMAIN ph : \A j \in 1..(Len(ph[k]) - 1) :
                         <<ph[k][j], ph[k][j + 1]>> \in Range(joins)
                   /\ Len(joins) = Sum([k \in DOMAIN ph |-> Len(ph[k]) - 1], DOMAIN ph)
      ]_vars

\* A query with a placeholder bound at two positions or more has returned
\* tuples.
C24_Witness ==
    \E h \in Handles :
       /\ hs[h].result.op = "query" /\ hs[h].result.status = "ok"
       /\ hs[h].result.value # <<>>
       /\ \E k \in DOMAIN Placeholders(hs[h].result.args.query) :
             Len(Placeholders(hs[h].result.args.query)[k]) >= 2

----------------------------------------------------------------------------
\* The tuples of the combinations of quad rows that match a query.
MatchingTuples(d, query) ==
    LET hit == SelectSeq(Combinations(d.quad, Len(query)),
                         LAMBDA combo : Matches(d, query, combo))
    IN [j \in DOMAIN hit |-> TupleOf(d, query, hit[j])]

\* C25: every row query returns holds one IRI per distinct placeholder, in
\* ascending order of the placeholder keys whatever the order the patterns
\* name them in, and the IRI is the one the attribute table holds for the id
\* in the column selected for the placeholder: the rows are the tuples of
\* the matching combinations.
C25_RowPerPlaceholder ==
    [][\A h \in Handles :
          (Answers(h, "query") /\ ~EmptyAny(hs'[h].result.args.query)) =>
             LET query == hs'[h].result.args.query
                 value == hs'[h].result.value
             IN /\ \A t \in DOMAIN value :
                      Len(value[t]) = Cardinality(DOMAIN Placeholders(query))
                /\ SameBag(value, MatchingTuples(db, query))
      ]_vars

\* A query that names placeholder 2 before placeholder 1 has returned rows.
C25_Witness ==
    \E h \in Handles :
       /\ hs[h].result.op = "query" /\ hs[h].result.status = "ok"
       /\ hs[h].result.value # <<>>
       /\ hs[h].result.args.query[1].subject = QPlaceholder(2)
       /\ hs[h].result.args.query[1].object = OId(QPlaceholder(1))

----------------------------------------------------------------------------
\* Handle h's get ends in this step, not on an error of the wire, having
\* read no quad row: it ends while its path is interned, or when the stream
\* of select_quad ends before any row.
EndsWithoutRows(h) ==
    /\ hs[h].op = "get" /\ hs'[h].op # "get"
    /\ hs'[h].result.status # "err"
    /\ \/ hs[h].stmt = "upsert_attributes"
       \/ /\ hs[h].stmt = "select_quad" /\ hs[h].out = <<>>
          /\ hs[h].phase = "rows" /\ Head(srv.inbox).type = "CommandComplete"

\* C26: a get(path) that finds no quad row under path returns Ok(None), be
\* path interned before the call or by it: it neither panics nor returns a
\* list.
C26_GetNothing ==
    [][\A h \in Handles :
          EndsWithoutRows(h) =>
             /\ hs'[h].result.status = "ok"
             /\ hs'[h].result.value = None
      ]_vars

\* The first operation on an empty database was a get, and it returned
\* Ok(None) for a path that it interned itself.
C26_Witness ==
    \E h \in Handles :
       /\ hs[h].result.op = "get" /\ hs[h].result.status = "ok"
       /\ hs[h].result.value = None
       /\ Started = 1 /\ db.quad = {}
       /\ db.attribute = {[id |-> 1, url |-> hs[h].result.args.path]}

----------------------------------------------------------------------------
\* This step is a write_data that returned Ok.
Wrote == fe'.stream # fe.stream

\* C28: the bytes queued with register_next are written once, right before
\* the payload of the next write_data, and the buffer is empty after that
\* write, so that a later write sends its payload alone.
C28_PreludeOnce ==
    [][Wrote =>
          /\ \E buf \in Payloads :
                fe'.stream = fe.stream
                             \o (IF fe.to_send # <<>> THEN <<fe.to_send>> ELSE <<>>)
                             \o <<buf>>
          /\ fe'.to_send = <<>>
      ]_vars

----------------------------------------------------------------------------
\* The number between the two "s" of a name, None when it has no such form.
NameNumber(name) ==
    IF Len(name) < 3 \/ name[1] # "s" \/ name[Len(name)] # "s" THEN None
    ELSE LET digits == SubSeq(name, 2, Len(name) - 1)
         IN  IF Head(digits) \in {"+", "-"} THEN None ELSE ParseI32(digits)

\* C29: every name generate_name returned on the connection has the form
\* s<n>s, with n greater than the n of every name returned before; so the
\* names differ, and so do the portals that two handles hold.
C29_NamesIncrease ==
    /\ \A i \in 1..Len(fe.names) : NameNumber(fe.names[i]) # None
    /\ \A i, j \in 1..Len(fe.names) :
          i < j => /\ NameNumber(fe.names[i])[1] < NameNumber(fe.names[j])[1]
                   /\ fe.names[i] # fe.names[j]
    /\ \A h1, h2 \in Handles :
          h1 # h2 /\ hs[h1].portal # None => hs[h1].portal # hs[h2].portal

\* Two handles hold a portal each, after names for a statement and for
\* portals were handed out to both.
C29_Witness ==
    /\ \E h1, h2 \in Handles :
          h1 # h2 /\ hs[h1].portal # None /\ hs[h2].portal # None
    /\ Len(fe.names) >= 4

----------------------------------------------------------------------------
\* The password requests among the first n messages connect has read.
PasswordRequests(n) ==
    {i \in 1..n : fe.read[i] \in AuthenticationRequests}

\* connect has read, as its k-th message and while still authenticating, a
\* request for a method it does not support.
UnsupportedAt(k) ==
    /\ fe.read[k] \in UnsupportedAuthentication
    /\ \A i \in 1..(k - 1) : fe.read[i] # <<"AuthenticationOk">>

\* What connect does on the k-th message when it refuses it as an
\* unsupported method: it returns that error, reads nothing more, and has
\* written the startup message and one password per earlier request only.
RefusedAt(k) ==
    /\ fe.status = "unsupported authentication method"
    /\ k = Len(fe.read)
    /\ Len(fe.stream) = 1 + Cardinality(PasswordRequests(k - 1))
    /\ fe.buf = <<>>

\* C30: a request for Kerberos, SCM, GSS, SSPI or SASL authentication that
\* arrives before AuthenticationOk makes connect fail with "unsupported
\* authentication method"; nothing is written in reply and no Connection is
\* returned.
C30_UnsupportedAuthentication ==
    \A k \in 1..Len(fe.read) : UnsupportedAt(k) => RefusedAt(k)

\* connect sent a password, was then asked for SASL, and failed.
C30_Witness ==
    /\ Len(fe.read) = 2
    /\ fe.read[1] = <<"AuthenticationCleartextPassword">>
    /\ fe.read[2] = <<"AuthenticationSasl">>
    /\ fe.status = "unsupported authentication method"
    /\ Len(fe.stream) = 2

\* C30 as stated, for the whole of the startup: any such request that
\* connect reads makes it fail with "unsupported authentication method".
C30_UnsupportedDuringStartup ==
    \A k \in 1..Len(fe.read) :
        fe.read[k] \in UnsupportedAuthentication => RefusedAt(k)

----------------------------------------------------------------------------
\* This step is a read_message that returns a NotificationResponse.
ReadsNotification ==
    /\ Unread /\ Head(fe.unread) = NotificationResponse
    /\ fe'.notified = fe.notified
    /\ fe'.unread # fe.unread

\* C27: a NotificationResponse that an operation reads while it waits for
\* its reply (in parse, in bind, in the row stream) does not end the
\* operation: it goes on to its own completion or error message.
C27_NotificationTolerated ==
    [][ReadsNotification => \A h \in Handles : hs'[h].op = hs[h].op]_vars

----------------------------------------------------------------------------
\* C31: every language-tagged object that get hands out, translated by
\* translate_quad from a stored row with a language, carries the datatype
\* IRI http://www.w3.org/1999/02/22-rdf-syntax-ns#langString beside its
\* value and its language.
C31_LangStringIri ==
    \A h \in Handles :
       (hs[h].result.op = "get" /\ hs[h].result.status = "ok"
          /\ hs[h].result.value # None) =>
           \A i \in DOMAIN Unwrap(hs[h].result.value) :
              LET c == Unwrap(hs[h].result.value)[i].contents
              IN  (c.kind = "Object" /\ c.language # None) =>
                     c.type_id = RdfLangString

----------------------------------------------------------------------------
\* The rows of the DataRows among the messages, as next returns them.
RowsOf(msgs) ==
    LET rows == SelectSeq(msgs, LAMBDA m : m.type = "DataRow")
    IN  [i \in DOMAIN rows |-> Some(rows[i].row)]

\* The Syncs among what was written.
Syncs == SelectSeq(fe.stream, LAMBDA w : w = <<"Sync">>)

\* An end of the portal's data is among the messages.
Ended(msgs) == \E i \in DOMAIN msgs : msgs[i] \in Terminators

\* C32: while the server has sent no ErrorResponse and the transport holds,
\* the next calls have returned one Some(row) per DataRow read, in the order
\* of arrival; a Sync is written when the first CommandComplete,
\* EmptyQueryResponse or PortalSuspended is read, one and no more, and none
\* before; after it nothing is returned until ReadyForQuery is read, and
\* then None, with no row after it.
C32_StreamEnds ==
    (~broken /\ \A i \in DOMAIN StreamSent : StreamSent[i] # ErrorResponse) =>
       /\ Len(Syncs) = (IF Ended(fe.consumed) THEN 1 ELSE 0)
       /\ fe.stream = Syncs
       /\ fe.returned = RowsOf(fe.consumed)
                           \o (IF fe.pos = "done" THEN <<None>> ELSE <<>>)
       /\ Ended(fe.consumed) => fe.pos \in {"draining", "done"}
       /\ fe.pos = "done" <=> (fe.consumed # <<>>
                                 /\ fe.consumed[Len(fe.consumed)] = ReadyForQuery)

\* Two rows with a notice between them were returned in order, and the
\* portal, suspended, was drained up to ReadyForQuery.
C32_Witness ==
    /\ fe.pos = "done"
    /\ fe.returned = <<Some(<<2>>), Some(<<1>>), None>>
    /\ \E i \in DOMAIN fe.consumed : fe.consumed[i] = NoticeResponse
    /\ \E i \in DOMAIN fe.consumed : fe.consumed[i] = PortalSuspended

----------------------------------------------------------------------------
\* Handle g writes a message in this step: the Parse, Bind or Execute of
\* the phase it leaves, or the Sync that ends its row stream.
SendsMessage(g) ==
    \/ hs[g].phase \in {"parse", "bind", "exec"} /\ hs'[g].phase # hs[g].phase
    \/ /\ hs[g].phase = "rows" /\ hs'[g].phase # "rows" /\ ~broken'
       /\ srv.inbox # <<>> /\ Head(srv.inbox).type = "CommandComplete"

\* C33: from the Bind of a handle to the Sync that ends its row stream (the
\* handle holds a portal, before execute or inside the stream), no other
\* handle writes a message on the connection, under any interleaving.
C33_BindToSyncAlone ==
    [][\A h \in Handles :
          (hs[h].phase \in {"exec", "rows"} /\ hs[h].portal # None) =>
             \A g \in Handles \ {h} : ~SendsMessage(g)
      ]_vars

----------------------------------------------------------------------------
\* AuthenticationOk is among the first n messages connect has read.
AuthenticatedBy(n) == \E i \in 1..n : fe.read[i] = <<"AuthenticationOk">>

\* The k-th message is one that only the other state of connect accepts:
\* a message of the initialisation before AuthenticationOk, an
\* Authentication message after it.
OutOfPlace(k) ==
    IF AuthenticatedBy(k - 1)
    THEN fe.read[k] \in {<<"AuthenticationOk">>} \cup AuthenticationRequests
                         \cup UnsupportedAuthentication
    ELSE fe.read[k][1] \in {"ReadyForQuery", "BackendKeyData", "ParameterStatus"}

\* The password requests connect has read while it was authenticating.
Requested ==
    {i \in PasswordRequests(Len(fe.read)) : ~AuthenticatedBy(i - 1)}

\* The messages connect has written, and those in buf for its next write.
Outgoing == Flatten(fe.stream) \o fe.buf

\* C34: connect returns the Connection only once it has read
\* AuthenticationOk and, later, ReadyForQuery as its last message; a message
\* of the initialisation read before AuthenticationOk and an Authentication
\* message read after it end connect with "unexpected message at this
\* time"; and what connect writes after the startup message is one
\* password message per password request it has read, nothing else.
C34_ConnectOrder ==
    /\ fe.status = "ok" =>
          /\ AuthenticatedBy(Len(fe.read) - 1)
          /\ fe.read[Len(fe.read)] = <<"ReadyForQuery">>
    /\ \A k \in 1..Len(fe.read) :
          OutOfPlace(k) => /\ fe.status = "unexpected message at this time"
                           /\ k = Len(fe.read)
    /\ Outgoing[1][1] = "StartupMessage"
    /\ \A i \in 2..Len(Outgoing) : Outgoing[i][1] = "PasswordMessage"
    /\ Len(Outgoing) <= 1 + Cardinality(Requested)
    /\ ~broken => Len(Outgoing) = 1 + Cardinality(Requested)

\* connect answered a request for the password, was told
\* AuthenticationOk, read the key data and returned the Connection on
\* ReadyForQuery.
C34_Witness ==
    /\ fe.status = "ok"
    /\ fe.read = <<<<"AuthenticationMd5Password", "salt1">>, <<"AuthenticationOk">>,
                   <<"BackendKeyData", 7, 9>>, <<"ReadyForQuery">>>>
    /\ Len(fe.stream) = 2
    /\ fe.key_data = Some(<<7, 9>>)

----------------------------------------------------------------------------
\* The bytes of the messages the server wrote from the n-th on.
BytesFrom(n) ==
    Flatten([i \in 1..(Len(fe.wrote) - n + 1) |-> Encode(fe.wrote[n + i - 1])])

\* C35: the read_message calls have returned the messages the server wrote,
\* in its order and each once, however the reads split the bytes; the bytes
\* behind the last message returned are all still there, in the buffer and
\* behind it on the wire, for the calls to come.
C35_MessagesInOrder ==
    /\ Len(fe.consumed) <= Len(fe.wrote)
    /\ fe.consumed = SubSeq(fe.wrote, 1, Len(fe.consumed))
    /\ fe.rbuf \o fe.wire = BytesFrom(Len(fe.consumed) + 1)

\* A message of five bytes took several reads, and of the two messages
\* behind it one was returned without a read of its own; all three were
\* returned.
C35_Witness ==
    /\ Len(fe.wrote) = 3 /\ fe.consumed = fe.wrote
    /\ fe.wrote[1].tag = "D" /\ fe.wrote[2].tag = "1" /\ fe.wrote[3].tag = "1"
    /\ fe.spanned /\ fe.packed

----------------------------------------------------------------------------
\* C36: a read that yields 0 bytes, the peer having closed the stream while
\* no whole message is buffered, ends read_message with an error for the
\* caller; the call does not read again.
C36_EofReturns ==
    [][fe'.spins # fe.spins => fe'.pos = "failed"]_vars

----------------------------------------------------------------------------
\* What the decoding of a stored row has to yield, None where it has to
\* fail: the priority of the four nullable columns.
Decoded(r) ==
    IF r.attribute_id # None
    THEN Some([kind |-> "Id", id |-> Unwrap(r.attribute_id)])
    ELSE IF r.object # None /\ r.language # None
    THEN Some([kind |-> "LanguageString", contents |-> Unwrap(r.object),
               language |-> Unwrap(r.language)])
    ELSE IF r.object # None /\ r.type_id # None
    THEN Some([kind |-> "Object", contents |-> Unwrap(r.object),
               type_id |-> Unwrap(r.type_id)])
    ELSE None

\* C37: whatever is null among attribute_id, object, type_id and language,
\* a row that get has decoded became Id when attribute_id is set, else
\* LanguageString when object and language are set, else Object when object
\* and type_id are set; a get that met any other row has not returned Ok
\* but panicked, and no datatype was made up for it.
C37_DecodePriority ==
    \A h \in Handles :
       /\ hs[h].stmt = "select_quad" =>
             \A i \in DOMAIN hs[h].out :
                \E r \in db.quad :
                   /\ r.id = hs[h].out[i].id
                   /\ Decoded(r) = Some(hs[h].out[i].contents)
       /\ (hs[h].result.op = "get" /\ hs[h].result.status = "ok"
             /\ hs[h].result.args.path = "urn:a") =>
             \A r \in db.quad : Decoded(r) # None
       /\ (hs[h].result.status = "panic"
             /\ hs[h].result.value = "invalid quad contents") =>
             \E r \in db.quad : Decoded(r) = None

\* A get decodes the row that holds an object, a datatype and a language:
\* the language wins, the row is a LanguageString.
C37_Witness ==
    \E h \in Handles :
       /\ hs[h].stmt = "select_quad" /\ Len(hs[h].out) = 1
       /\ hs[h].out[1].contents.kind = "LanguageString"
       /\ \E r \in db.quad : r.type_id # None /\ r.language # None

----------------------------------------------------------------------------
\* C38: while translate_quads waits for its cache_ids, every id that
\* translate_quad will look up for the decoded quads (subject, predicate,
\* object id, datatype id) is in collect_quad_ids of the quads, and is cached
\* or among the ids being selected; the ids being in the attribute table,
\* no get ends on a lookup of an id that is not cached.
C38_LookupsCollected ==
    \A h \in Handles :
       /\ (hs[h].op = "get" /\ hs[h].stmt = "select_attributes") =>
             \A i \in DOMAIN hs[h].local :
                /\ TranslateLookups(hs[h].local[i]) \subseteq
                      collect_quad_ids(hs[h].local)
                /\ TranslateLookups(hs[h].local[i]) \subseteq
                      DOMAIN cache[h].id_to_uri \cup Range(hs[h].params[1])
       /\ ~(/\ hs[h].result.op = "get" /\ hs[h].result.status = "panic"
            /\ hs[h].result.value = "id_to_uri")

\* A handle that has put nothing got an entity with a typed literal: the
\* ids it translated came to its cache through cache_ids.
C38_Witness ==
    \E h \in Handles :
       /\ hs[h].nops = 1
       /\ hs[h].result.op = "get" /\ hs[h].result.status = "ok"
       /\ hs[h].result.value # None
       /\ \E i \in DOMAIN Unwrap(hs[h].result.value) :
             LET c == Unwrap(hs[h].result.value)[i].contents
             IN  c.kind = "Object" /\ c.type_id = XsdString

----------------------------------------------------------------------------
\* The invariants of the schema on one quad row.
WellFormedRow(r) ==
    /\ (r.attribute_id # None) # (r.object # None)
    /\ r.language # None => (r.object # None /\ r.attribute_id = None)

\* C39: every row of the quad table, all of them written by put, has
\* exactly one of attribute_id and object, a language only beside an object
\* and without an attribute_id, and as quad_id the id of an IRI that was a
\* put path; the seven arrays a put hands to insert_quads have the length
\* of its quad list each, and the id of its path in every place of the
\* first.
C39_PutRowsWellFormed ==
    /\ \A r \in db.quad :
          /\ WellFormedRow(r)
          /\ \E a \in db.attribute : a.id = r.quad_id /\ a.url \in Paths
    /\ \A h \in Handles :
          hs[h].stmt = "insert_quads" =>
             /\ Len(hs[h].params) = 7
             /\ \A k \in 1..7 : Len(hs[h].params[k]) = Len(hs[h].args.item)
             /\ \A i \in DOMAIN hs[h].params[1] :
                   hs[h].params[1][i] = AttrId(db, hs[h].args.path)

\* The table holds a row with an object id and a row with a language,
\* written by two puts.
C39_Witness ==
    /\ \E r \in db.quad : r.attribute_id # None
    /\ \E r \in db.quad : r.language # None

----------------------------------------------------------------------------
\* The handle is in a read_collection that has bound its select statement.
BoundSelect(h) ==
    /\ hs[h].op = "read_collection"
    /\ hs[h].stmt \in {"select_collection", "select_collection_reverse"}

\* C40: the limit a read_collection binds to its select statement is not
\* negative and is the count of the call, 30 when the call has none; the
\* count u32::MAX of the collection list command is a case of it.
C40_LimitIsCount ==
    \A h \in Handles :
       BoundSelect(h) =>
          /\ hs[h].params[3] >= 0
          /\ U32(hs[h].params[3]) =
                (IF IsSome(hs[h].args.count) THEN Unwrap(hs[h].args.count)
                 ELSE U32(30))

====
